---------------------------- MODULE Spec2Model ----------------------------
(***************************************************************************)
(* A model of sorm: the model registry (reflection of record types into    *)
(* table metadata), the expression algebra and the SQL compiler (builder,  *)
(* Selector, Inserter, Updater, dialects), and the execution pipeline      *)
(* (middleware chain, fetch-one, fetch-many, exec, Result).                *)
(*                                                                         *)
(* SQL text is a sequence of tokens; concatenating the tokens gives the    *)
(* text the Go code writes into its strings.Builder.  Statement objects    *)
(* live in a heap (objs), because a Subquery holds a pointer to a Selector *)
(* whose buffer Build mutates.                                             *)
(***************************************************************************)
EXTENDS Integers, Sequences, FiniteSets, TLC

VARIABLES
    objs,       \* builder: heap of statement objects, id -> object
    root,       \* builder: id of the statement the caller builds
    builds,     \* builder: number of Build calls made on root
    q,          \* builder: what the last Build call returned
    pc,         \* pipeline: position inside the running call
    call,       \* pipeline: the running call (entry point, middleware list, inputs)
    depth,      \* pipeline: number of middleware entered and not yet left
    log,        \* pipeline: observed events, in order
    cur,        \* pipeline: the row cursor of the running call
    acc,        \* pipeline: records materialized so far (fetch-many)
    ret,        \* pipeline: what the entry point returned to the caller
    db,         \* pipeline: the data source's configuration (its middleware list)
    calls,      \* pipeline: number of entry-point calls made
    models,     \* registry: sync.Map, type -> *Model
    cpc,        \* registry: position of each concurrent caller
    cloc,       \* registry: each caller's local Model under construction
    cret        \* registry: what each caller's call returned

bvars == <<objs, root, builds, q>>
evars == <<pc, call, depth, log, cur, acc, ret, db, calls>>
rvars == <<models, cpc, cloc, cret>>
vars == <<objs, root, builds, q, pc, call, depth, log, cur, acc, ret, db, calls,
          models, cpc, cloc, cret>>

\* ------------------------------------------------------------------ bounds

\* Literal values bound in statements are 1..MaxVal.
MaxVal == 2
\* Build is called at most MaxBuilds times on one statement object.
MaxBuilds == 2
\* A query yields at most MaxRows rows.
MaxRows == 2
\* At most MaxCalls entry-point calls are made on one statement object.
MaxCalls == 2
\* Concurrent callers of the registry are 1..NCallers.
NCallers == 2

Vals == 1..MaxVal

\* ------------------------------------------------------------------ errors

NoErr == "nil"
ErrPointerOnly == "ErrPointerOnly"
ErrNoRows == "ErrNoRows"
ErrNoUpdatedColumns == "ErrNoUpdatedColumns"
ErrInsertZeroRow == "ErrInsertZeroRow"
NewErrUnknownField(fd) == "ErrUnknownField " \o fd
NewErrInvalidTagContent(pair) == "ErrInvalidTagContent " \o pair
NewErrUnsupportedExpressionType(k) == "ErrUnsupportedExpression " \o k
NewErrUnsupportedAssignableType(k) == "ErrUnsupportedAssignable " \o k
NewErrUnsupportedSelectable(k) == "ErrUnsupportedSelectable " \o k

\* ------------------------------------------------------------------ record types

\* The record types the application declares.  A name is a sequence of
\* characters, so that the camel-case to snake-case conversion is computed.
\* tag is the content of the field's orm:"..." tag; tableName is what the
\* type's TableName() method returns ("" when it has none).
StructDecl ==
    [ TestModel |->
        [ name |-> <<"T","e","s","t","M","o","d","e","l">>, tableName |-> "",
          fields |-> << [name |-> <<"I","d">>, tag |-> <<>>],
                        [name |-> <<"F","i","r","s","t","N","a","m","e">>, tag |-> <<>>],
                        [name |-> <<"A","g","e">>, tag |-> <<>>] >> ],
      Order |->
        [ name |-> <<"O","r","d","e","r">>, tableName |-> "",
          fields |-> << [name |-> <<"I","d">>,
                         tag |-> <<"c","o","l","u","m","n","=","o","i","d">>],
                        [name |-> <<"U","s","e","r","I","d">>, tag |-> <<>>] >> ],
      Item |->
        [ name |-> <<"I","t","e","m">>, tableName |-> "item_t",
          fields |-> << [name |-> <<"I","d">>,
                         tag |-> <<"c","o","l","u","m","n","=","i","i","d">>],
                        [name |-> <<"S","k","u">>, tag |-> <<>>] >> ],
      BadTag |->
        [ name |-> <<"B","a","d","T","a","g">>, tableName |-> "",
          fields |-> << [name |-> <<"I","d">>, tag |-> <<"c","o","l","u","m","n">>] >> ],
      BadPair |->
        [ name |-> <<"B","a","d","P","a","i","r">>, tableName |-> "",
          fields |-> << [name |-> <<"I","d">>, tag |-> <<>>],
                        [name |-> <<"N","o">>,
                         tag |-> <<"c","o","l","u","m","n","=","n",",","x","=","y","=","z">>] >> ] ]

StructNames == DOMAIN StructDecl

\* A Go type as reflect.TypeOf sees it: ptr levels of pointer around base,
\* base a declared struct or "int".
GoType(ptr, base) == [ptr |-> ptr, base |-> base]
PtrTo(base) == GoType(1, base)

\* ------------------------------------------------------------------ strings

UpperSeq == <<"A","B","C","D","E","F","G","H","I","J","K","L","M",
              "N","O","P","Q","R","S","T","U","V","W","X","Y","Z">>
LowerSeq == <<"a","b","c","d","e","f","g","h","i","j","k","l","m",
              "n","o","p","q","r","s","t","u","v","w","x","y","z">>

IsUpper(c) == \E i \in 1..Len(UpperSeq) : UpperSeq[i] = c
ToLower(c) == IF IsUpper(c)
              THEN LowerSeq[CHOOSE i \in 1..Len(UpperSeq) : UpperSeq[i] = c]
              ELSE c

RECURSIVE Str(_)
Str(cs) == IF cs = <<>> THEN "" ELSE Head(cs) \o Str(Tail(cs))

\* strings.Split(s, sep) for a one-character separator, on character
\* sequences: always at least one part.
RECURSIVE Split(_, _)
Split(cs, sep) ==
    IF \A i \in 1..Len(cs) : cs[i] # sep
    THEN <<cs>>
    ELSE LET i == CHOOSE j \in 1..Len(cs) :
                     cs[j] = sep /\ \A k \in 1..(j-1) : cs[k] # sep
         IN <<SubSeq(cs, 1, i-1)>> \o Split(SubSeq(cs, i+1, Len(cs)), sep)


\* ------------------------------------------------------------------ registry: parsing

\* underscoreName: every upper-case letter is lower-cased and, unless it is
\* the first character, preceded by an underscore.
RECURSIVE underscoreFrom(_, _)
underscoreFrom(cs, i) ==
    IF i > Len(cs) THEN ""
    ELSE (IF IsUpper(cs[i])
          THEN (IF i # 1 THEN "_" ELSE "") \o ToLower(cs[i])
          ELSE cs[i]) \o underscoreFrom(cs, i + 1)

underscoreName(cs) == underscoreFrom(cs, 1)

tagKeyColumn == "column"

MapGet(m, k) == IF k \in DOMAIN m THEN m[k] ELSE ""
MapPut(m, k, v) == [x \in (DOMAIN m) \cup {k} |-> IF x = k THEN v ELSE m[x]]
EmptyMap == [x \in {} |-> ""]

\* A parse that passes over a pair that is not key=value.
RECURSIVE parsePairsLenient(_, _)
parsePairsLenient(pairs, res) ==
    IF pairs = <<>> THEN [err |-> NoErr, tags |-> res]
    ELSE parsePairsLenient(Tail(pairs), res)

RECURSIVE parsePairs(_, _)
parsePairs(pairs, res) ==
    IF pairs = <<>> THEN [err |-> NoErr, tags |-> res]
    ELSE LET kv == Split(Head(pairs), "=")
         IN IF Len(kv) # 2
            THEN [err |-> NewErrInvalidTagContent(Str(Head(pairs))), tags |-> EmptyMap]
            ELSE parsePairs(Tail(pairs), MapPut(res, Str(kv[1]), Str(kv[2])))

parseTag(tag) ==
    IF tag = <<>> THEN [err |-> NoErr, tags |-> EmptyMap]
    ELSE parsePairs(Split(tag, ","), EmptyMap)

NilModel == [TableName |-> "", Fields |-> <<>>, FieldMap |-> EmptyMap, ColumnMap |-> EmptyMap]

\* The maps hold pointers into Fields: here, indexes.  A later entry with the
\* same key replaces an earlier one.
IndexBy(fields, key(_)) ==
    [n \in {key(fields[i]) : i \in 1..Len(fields)} |->
        CHOOSE i \in 1..Len(fields) :
            key(fields[i]) = n /\ \A j \in (i+1)..Len(fields) : key(fields[j]) # n]

GoNameOf(f) == f.GoName
ColNameOf(f) == f.ColName

\* One Field of the Model: the tagged column name, or the snake-cased name.
fieldOf(f, tags, i) ==
    [ColName |-> IF MapGet(tags, tagKeyColumn) = "" THEN underscoreName(f.name)
                 ELSE MapGet(tags, tagKeyColumn),
     GoName |-> Str(f.name),
     Index |-> i - 1]

\* &Model{TableName, FieldMap, ColumnMap, Fields}
newModel(d, fields) ==
    [err |-> NoErr,
     m |-> [TableName |-> IF d.tableName = "" THEN underscoreName(d.name) ELSE d.tableName,
            Fields |-> fields,
            FieldMap |-> IndexBy(fields, GoNameOf),
            ColumnMap |-> IndexBy(fields, ColNameOf)]]

\* The loop over the fields: the first tag that does not parse ends it.
parseFields(d, tg, bad) ==
    IF bad # {}
    THEN [err |-> tg[CHOOSE i \in bad : \A j \in bad : i <= j].err, m |-> NilModel]
    ELSE newModel(d, [i \in DOMAIN tg |-> fieldOf(d.fields[i], tg[i].tags, i)])

parseTags(d, tg) == parseFields(d, tg, {i \in DOMAIN tg : tg[i].err # NoErr})

parseStruct(d) == parseTags(d, [i \in 1..Len(d.fields) |-> parseTag(d.fields[i].tag)])

parseModel(typ) ==
    IF typ.ptr # 1 \/ typ.base \notin StructNames
    THEN [err |-> ErrPointerOnly, m |-> NilModel]
    ELSE parseStruct(StructDecl[typ.base])

\* Options.
WithTableName(tableName) == [k |-> "WithTableName", name |-> tableName]
WithColumnName(field, columnName) ==
    [k |-> "WithColumnName", field |-> field, col |-> columnName]

\* Applying one option to the Model under construction.  WithColumnName
\* writes through the FieldMap pointer: the Field changes, ColumnMap's keys
\* do not.
ApplyOption(m, opt) ==
    IF opt.k = "WithTableName"
    THEN [err |-> NoErr, m |-> [m EXCEPT !.TableName = opt.name]]
    ELSE IF opt.field \notin DOMAIN m.FieldMap
         THEN [err |-> NewErrUnknownField(opt.field), m |-> m]
         ELSE [err |-> NoErr,
               m |-> [m EXCEPT !.Fields[m.FieldMap[opt.field]].ColName = opt.col]]

\* The registry as the compiler sees it in one sequential Build: a lookup
\* of a type nobody registered with options returns what parseModel derives.
RegistryGet(typ) == parseModel(typ)


\* ------------------------------------------------------------------ expression algebra

Nil == [k |-> "nil"]

opEQ == "="
opLT == "<"
opGT == ">"
opIN == "IN"
opExist == "EXIST"
opAND == "AND"
opOR == "OR"
opNOT == "NOT"
opAdd == "+"
opMulti == "*"

\* Column{table, name, alias}
Column(table, name, alias) == [k |-> "Column", table |-> table, name |-> name, alias |-> alias]
C(name) == Column(Nil, name, "")

valueOf(val) == [k |-> "value", val |-> val]

Predicate(left, op, right) == [k |-> "Predicate", left |-> left, op |-> op, right |-> right]
MathExpr(left, op, right) == [k |-> "MathExpr", left |-> left, op |-> op, right |-> right]

IsExpression(e) == e.k \in {"Column", "value", "Predicate", "MathExpr", "RawExpr",
                            "Subquery", "SubqueryExpr", "binaryExpr", "Aggregate"}

\* A Go value of type any that is not an Expression.
Lit(v) == [k |-> "lit", v |-> v]

\* exprOf: an Expression passes through, anything else becomes a literal value.
exprOf(e) == IF IsExpression(e) THEN e ELSE valueOf(e.v)

EQ(c, arg) == Predicate(c, opEQ, exprOf(arg))
LT(c, arg) == Predicate(c, opLT, exprOf(arg))
GT(c, arg) == Predicate(c, opGT, exprOf(arg))
\* In binds the whole list of values to one placeholder.
In(c, vals) == Predicate(c, opIN, valueOf(vals))
InQuery(c, sub) == Predicate(c, opIN, sub)

Exist(sub) == Predicate(Nil, opExist, sub)
\* SubqueryExpr{s, pred}
\* (Any is a name of the TLC module: AnyOf here)
AnyOf(sub) == [k |-> "SubqueryExpr", s |-> sub, pred |-> "ANY"]
All(sub) == [k |-> "SubqueryExpr", s |-> sub, pred |-> "ALL"]
Some(sub) == [k |-> "SubqueryExpr", s |-> sub, pred |-> "SOME"]
Not(p) == Predicate(Nil, opNOT, p)
And(p, r) == Predicate(p, opAND, r)
Or(p, r) == Predicate(p, opOR, r)

ColumnAdd(c, delta) == MathExpr(c, opAdd, valueOf(delta))
ColumnMulti(c, delta) == MathExpr(c, opAdd, valueOf(delta))
MathAdd(m, val) == MathExpr(m, opAdd, valueOf(val))
MathMulti(m, val) == MathExpr(m, opMulti, valueOf(val))

\* Column.As keeps the name and sets the alias; the table is not copied.
ColumnAs(c, alias) == Column(Nil, c.name, alias)

Raw(expr, args) == [k |-> "RawExpr", raw |-> expr, args |-> args]
RawAsPredicate(r) == Predicate(r, "", Nil)

Assign(column, val) ==
    [k |-> "Assignment", column |-> column,
     val |-> IF IsExpression(val) THEN val ELSE valueOf(val.v)]

\* Table references.
TableOf(entity) == [k |-> "Table", entity |-> entity, alias |-> ""]
TableAs(t, alias) == [k |-> "Table", entity |-> t.entity, alias |-> alias]
TableC(t, name) == Column(t, name, "")
JoinOn(left, right, typ, ps) ==
    [k |-> "Join", left |-> left, right |-> right, typ |-> typ, on |-> ps, using |-> <<>>]
JoinUsing(left, right, typ, cs) ==
    [k |-> "Join", left |-> left, right |-> right, typ |-> typ, on |-> <<>>, using |-> cs]
\* Subquery{s, columns, alias, table}: s is the id of the Selector it wraps.
Subquery(s, columns, alias, table) ==
    [k |-> "Subquery", s |-> s, columns |-> columns, alias |-> alias, table |-> table]
SubqueryC(sub, name) == Column(sub, name, "")

tableAlias(t) == IF t.k \in {"Table", "Subquery"} THEN t.alias ELSE ""

\* Selectable: Column and RawExpr.
selectedAlias(c) == IF c.k = "Column" THEN c.alias ELSE ""
fieldName(c) == IF c.k = "Column" THEN c.name ELSE ""
target(c) == IF c.k = "Column" THEN c.table ELSE Nil


\* ------------------------------------------------------------------ statement objects

MySQL == "MySQL"
SQLite3 == "SQLite3"

\* Dialect.quoter: both dialects quote with the backquote byte (0x60), which
\* a TLA+ string cannot hold: it is written as an apostrophe here.
quoter(dialect) == "'"

\* The fields of every statement kind, so that the heap is uniform.  sb, args
\* and model are the embedded builder; ph is a ghost: the value each "?" in
\* sb was written for, in text order.
NewStatement(kind, T, dialect) ==
    [kind |-> kind, T |-> T, dialect |-> dialect,
     sb |-> <<>>, args |-> <<>>, ph |-> <<>>, model |-> NilModel,
     table |-> Nil, where |-> <<>>, having |-> <<>>, columns |-> <<>>,
     groupBy |-> <<>>, offset |-> 0, limit |-> 0,
     values |-> <<>>, icolumns |-> <<>>, upsert |-> Nil,
     assigns |-> <<>>, val |-> Nil]

NewSelector(T, dialect) == NewStatement("Selector", T, dialect)
NewInserter(T, dialect) == NewStatement("Inserter", T, dialect)
NewUpdater(T, dialect) == NewStatement("Updater", T, dialect)
\* &Deleter[T]{}: its table is a string, empty until From(tbl) sets it, and
\* it has no dialect and no Model.
GoString(s) == [k |-> "string", s |-> s]
NewDeleter(T) == [NewStatement("Deleter", T, "") EXCEPT !.table = GoString("")]
\* RawQuery[T](sess, sql, args): the statement holds its text and args as given.
RawQuery(T, sql, args) ==
    [NewStatement("RawQuerier", T, MySQL) EXCEPT !.sb = sql, !.args = args, !.ph = args]

\* Selector.AsSubquery: the Selector's table (or TableOf(new(T))) and its
\* projected columns at the time of the call.
AsSubquery(h, sid, alias) ==
    Subquery(sid, h[sid].columns, alias,
             IF h[sid].table = Nil THEN TableOf(PtrTo(h[sid].T)) ELSE h[sid].table)

\* OnDuplicateKey().ConflictColumns(cols).Update(assigns)
Upsert(conflictColumns, assigns) ==
    [k |-> "Upsert", conflictColumns |-> conflictColumns, assigns |-> assigns]

\* ------------------------------------------------------------------ builder

\* What a step of the compiler gives: the heap, an error (the whole Build
\* fails with it), and the steps it leaves to do, in order.
Ok(h) == [h |-> h, err |-> NoErr, push |-> <<>>]
Fail(h, e) == [h |-> h, err |-> e, push |-> <<>>]
Push(h, fs) == [h |-> h, err |-> NoErr, push |-> fs]

\* A pending call op(x, y, z) on the builder of statement id.
Frame(op, id, x, y, z) == [op |-> op, id |-> id, x |-> x, y |-> y, z |-> z]
FWriteString(id, toks) == Frame("WriteString", id, toks, Nil, Nil)
FBuildAs(id, alias) == Frame("buildAs", id, alias, Nil, Nil)
FBuildColumn(id, table, fd) == Frame("buildColumn", id, table, fd, Nil)
FBuildExpression(id, e) == Frame("buildExpression", id, e, Nil, Nil)
FBuildBinaryExpr(id, e) == Frame("buildBinaryExpr", id, e, Nil, Nil)
FBuildSubExpr(id, e) == Frame("buildSubExpr", id, e, Nil, Nil)
FBuildSubquery(id, tab, useAlias) == Frame("buildSubquery", id, tab, useAlias, Nil)
FSpliceSubquery(id, tab, useAlias) == Frame("spliceSubquery", id, tab, useAlias, Nil)
FBuildPredicates(id, ps) == Frame("buildPredicates", id, ps, Nil, Nil)
FBuildTable(id, table) == Frame("buildTable", id, table, Nil, Nil)
FBuild(id) == Frame("Build", id, Nil, Nil, Nil)

WriteString(h, id, toks) == [h EXCEPT ![id].sb = @ \o toks]

quote(h, id, name) ==
    WriteString(h, id, <<quoter(h[id].dialect), name, quoter(h[id].dialect)>>)

addArgs(h, id, args) == [h EXCEPT ![id].args = @ \o args]

\* Writing one placeholder: the text gets "?", the ghost the value meant.
WritePlaceholder(h, id, v) == [h EXCEPT ![id].sb = @ \o <<"?">>, ![id].ph = @ \o <<v>>]

\* raw: the fragment verbatim, then its args.
raw(h, id, r) ==
    LET h1 == [h EXCEPT ![id].sb = @ \o r.raw, ![id].ph = @ \o r.args]
    IN IF Len(r.args) # 0 THEN addArgs(h1, id, r.args) ELSE h1

buildAs(h, id, alias) ==
    IF alias # "" THEN quote(WriteString(h, id, <<" AS ">>), id, alias) ELSE h

\* colName: the column a field name resolves to through a table reference.
\* b is the statement object being built (b.model is its own Model).
RECURSIVE colName(_, _, _)
RECURSIVE colNameInColumns(_, _, _, _)
colNameInColumns(b, columns, i, fd) ==
    IF i > Len(columns) THEN [name |-> "", err |-> NewErrUnknownField(fd)]
    ELSE IF selectedAlias(columns[i]) = fd THEN [name |-> fd, err |-> NoErr]
    ELSE IF fieldName(columns[i]) = fd THEN colName(b, target(columns[i]), fd)
    ELSE colNameInColumns(b, columns, i + 1, fd)

fieldColumn(m, fd) ==
    IF fd \notin DOMAIN m.FieldMap
    THEN [name |-> "", err |-> NewErrUnknownField(fd)]
    ELSE [name |-> m.Fields[m.FieldMap[fd]].ColName, err |-> NoErr]

tableColumn(g, fd) ==
    IF g.err # NoErr THEN [name |-> "", err |-> g.err] ELSE fieldColumn(g.m, fd)

colNameJoin(left, right) ==
    IF left.err # NoErr THEN [name |-> left.name, err |-> NoErr] ELSE right

colName(b, table, fd) ==
    CASE table.k = "nil" -> fieldColumn(b.model, fd)
      [] table.k = "Table" -> tableColumn(RegistryGet(table.entity), fd)
      [] table.k = "Join" ->
            colNameJoin(colName(b, table.left, fd), colName(b, table.right, fd))
      [] table.k = "Subquery" ->
            IF Len(table.columns) > 0
            THEN colNameInColumns(b, table.columns, 1, fd)
            ELSE colName(b, table.table, fd)
      [] OTHER -> [name |-> "", err |-> NewErrUnsupportedExpressionType(table.k)]

\* builder.buildColumn: the alias prefix is written before the name is resolved.
writeAlias(h, id, alias) ==
    IF alias # "" THEN WriteString(quote(h, id, alias), id, <<".">>) ELSE h

writeColName(h, id, cn) ==
    IF cn.err # NoErr THEN Fail(h, cn.err) ELSE Ok(quote(h, id, cn.name))

buildColumn(h, id, table, fd) ==
    writeColName(writeAlias(h, id, IF table.k # "nil" THEN tableAlias(table) ELSE ""),
                 id, colName(h[id], table, fd))

NilQuery == [SQL |-> <<>>, Args |-> <<>>, PH |-> <<>>]
BuildFail(h, e) == [h |-> h, err |-> e, q |-> NilQuery]
\* &Query{SQL: sb.String(), Args: args}
BuildOk(h, id) ==
    [h |-> h, err |-> NoErr, q |-> [SQL |-> h[id].sb, Args |-> h[id].args, PH |-> h[id].ph]]

\* The text as it is.
WholeText(sql) == sql

\* q.SQL[:len(q.SQL)-1]: the text without its last byte.  Every statement
\* ends with the one-byte token ";".
DropLastByte(sql) == SubSeq(sql, 1, Len(sql) - 1)

\* buildAggregate: FUNC(column), then the alias in a projection position.
buildAggregate(h, id, a, useAlias) ==
    Push(WriteString(h, id, <<a.fn, "(">>),
         <<FBuildColumn(id, a.table, a.arg), FWriteString(id, <<")">>)>>
         \o (IF useAlias THEN <<FBuildAs(id, a.alias)>> ELSE <<>>))

buildExpression(h, id, e) ==
    CASE e.k = "nil" -> Ok(h)
      [] e.k = "Column" -> buildColumn(h, id, e.table, e.name)
      [] e.k = "Aggregate" -> buildAggregate(h, id, e, FALSE)
      [] e.k = "value" -> Ok(addArgs(WritePlaceholder(h, id, e.val), id, <<e.val>>))
      [] e.k = "RawExpr" -> Ok(raw(h, id, e))
      [] e.k \in {"MathExpr", "Predicate", "binaryExpr"} ->
            Push(h, <<FBuildBinaryExpr(id, e)>>)
      [] e.k = "SubqueryExpr" ->
            Push(WriteString(h, id, <<e.pred, " ">>), <<FBuildSubquery(id, e.s, FALSE)>>)
      [] e.k = "Subquery" -> Push(h, <<FBuildSubquery(id, e, FALSE)>>)
      [] OTHER -> Fail(h, NewErrUnsupportedExpressionType(e.k))

\* buildSubquery: the inner Selector is built in place (its own buffer
\* grows); then its text without the terminator is wrapped in parentheses
\* and its args are appended to the outer args.
buildSubquery(h, id, tab, useAlias) ==
    Push(h, <<FBuild(tab.s), FSpliceSubquery(id, tab, useAlias)>>)

\* The rest of buildSubquery, once tab.s.Build() returned the Query that is
\* now in the inner Selector's buffer.
spliceSubquery(h, id, tab, useAlias) ==
    LET inner == BuildOk(h, tab.s).q
        h1 == WriteString(h, id, <<"(">>)
        h2 == [h1 EXCEPT ![id].sb = @ \o DropLastByte(inner.SQL),
                         ![id].ph = @ \o inner.PH]
        h3 == IF Len(inner.Args) > 0 THEN addArgs(h2, id, inner.Args) ELSE h2
        h4 == WriteString(h3, id, <<")", " ">>)
    IN Ok(IF useAlias
          THEN quote(WriteString(h4, id, <<" AS ">>), id, tab.alias)
          ELSE h4)

buildBinaryExpr(h, id, e) ==
    Push(h, <<FBuildSubExpr(id, e.left)>>
            \o (IF e.op # "" THEN <<FWriteString(id, <<" ", e.op>>)>> ELSE <<>>)
            \o (IF e.right # Nil
                THEN <<FWriteString(id, <<" ">>), FBuildSubExpr(id, e.right)>>
                ELSE <<>>))

\* A binary operand compiled without its parentheses.
Unparenthesized(h, id, sub) == Push(h, <<FBuildBinaryExpr(id, sub)>>)

\* buildSubExpr: an operand that is itself a binary node goes in parentheses.
Parenthesized(h, id, sub) ==
    Push(WriteString(h, id, <<"(">>),
         <<FBuildBinaryExpr(id, sub), FWriteString(id, <<")">>)>>)

buildSubExpr(h, id, subExpr) ==
    CASE subExpr.k = "MathExpr" -> Parenthesized(h, id, subExpr)
      [] subExpr.k = "binaryExpr" -> Parenthesized(h, id, subExpr)
      [] subExpr.k = "Predicate" -> Parenthesized(h, id, subExpr)
      [] OTHER -> Push(h, <<FBuildExpression(id, subExpr)>>)

\* The list folded to the right: p AND (p2 AND (...)).
RECURSIVE FoldAndRight(_, _, _)
FoldAndRight(p, ps, i) ==
    IF i > Len(ps) THEN p ELSE And(p, FoldAndRight(ps[i], ps, i + 1))

\* buildPredicates: the list folded by left-associative And, then compiled.
RECURSIVE FoldAnd(_, _, _)
FoldAnd(p, ps, i) == IF i > Len(ps) THEN p ELSE FoldAnd(And(p, ps[i]), ps, i + 1)

buildPredicates(h, id, ps) == Push(h, <<FBuildExpression(id, FoldAnd(ps[1], ps, 2))>>)

\* ------------------------------------------------------------------ Selector

\* Selector.buildColumn: the column, then its alias in a projection position.
SelectorBuildColumn(id, c, useAlias) ==
    <<FBuildColumn(id, c.table, c.name)>>
    \o (IF useAlias THEN <<FBuildAs(id, c.alias)>> ELSE <<>>)

\* The loops of the compiler: step i of the loop, then the loop from i + 1.
Separator(id, i) == IF i > 1 THEN <<FWriteString(id, <<",">>)>> ELSE <<>>

FBuildColumnsFrom(id, i) == Frame("buildColumnsFrom", id, i, Nil, Nil)
buildColumnsFrom(h, id, i) ==
    LET cols == h[id].columns
    IN IF i > Len(cols) THEN Ok(h)
       ELSE LET c == cols[i]
            IN CASE c.k = "Column" ->
                      Push(h, Separator(id, i) \o SelectorBuildColumn(id, c, TRUE)
                              \o <<FBuildColumnsFrom(id, i + 1)>>)
                 [] c.k = "Aggregate" ->
                      Push(h, Separator(id, i)
                              \o <<Frame("buildAggregate", id, c, TRUE, Nil),
                                   FBuildColumnsFrom(id, i + 1)>>)
                 [] c.k = "RawExpr" ->
                      Push(h, Separator(id, i)
                              \o <<Frame("raw", id, c, Nil, Nil),
                                   FBuildColumnsFrom(id, i + 1)>>)
                 [] OTHER ->
                      Push(h, Separator(id, i)
                              \o <<Frame("fail", id, NewErrUnsupportedSelectable(c.k),
                                         Nil, Nil)>>)

buildColumns(h, id) ==
    IF Len(h[id].columns) = 0 THEN Ok(WriteString(h, id, <<"*">>))
    ELSE buildColumnsFrom(h, id, 1)

FBuildUsing(id, using, i) == Frame("buildUsing", id, using, i, Nil)
buildUsing(h, id, using, i) ==
    IF i > Len(using) THEN Ok(h)
    ELSE Push(h, Separator(id, i) \o SelectorBuildColumn(id, C(using[i]), FALSE)
                 \o <<FBuildUsing(id, using, i + 1)>>)

buildJoin(h, id, tab) ==
    Push(WriteString(h, id, <<"(">>),
         <<FBuildTable(id, tab.left), FWriteString(id, <<" ", tab.typ, " ">>),
           FBuildTable(id, tab.right)>>
         \o (IF Len(tab.using) > 0
             THEN <<FWriteString(id, <<" USING (">>), FBuildUsing(id, tab.using, 1),
                    FWriteString(id, <<")">>)>>
             ELSE <<>>)
         \o (IF Len(tab.on) > 0
             THEN <<FWriteString(id, <<" ON ">>), FBuildPredicates(id, tab.on)>>
             ELSE <<>>)
         \o <<FWriteString(id, <<")">>)>>)

writeTable(h, id, g, alias) ==
    IF g.err # NoErr THEN Fail(h, g.err)
    ELSE Ok(IF alias # ""
            THEN quote(WriteString(quote(h, id, g.m.TableName), id, <<" AS ">>), id, alias)
            ELSE quote(h, id, g.m.TableName))

buildTable(h, id, table) ==
    CASE table.k = "nil" -> Ok(quote(h, id, h[id].model.TableName))
      [] table.k = "Table" -> writeTable(h, id, RegistryGet(table.entity), table.alias)
      [] table.k = "Join" -> buildJoin(h, id, table)
      [] table.k = "Subquery" -> buildSubquery(h, id, table, TRUE)
      [] OTHER -> Fail(h, NewErrUnsupportedExpressionType(table.k))

FBuildGroupBy(id, i) == Frame("buildGroupBy", id, i, Nil, Nil)
buildGroupBy(h, id, i) ==
    IF i > Len(h[id].groupBy) THEN Ok(h)
    ELSE Push(h, Separator(id, i) \o SelectorBuildColumn(id, h[id].groupBy[i], FALSE)
                 \o <<FBuildGroupBy(id, i + 1)>>)

\* The LIMIT and OFFSET clauses: a placeholder each, bound to the number.
limitOffset(h, id) ==
    LET h1 == IF h[id].limit > 0
              THEN addArgs(WritePlaceholder(WriteString(h, id, <<" LIMIT ">>), id,
                                            h[id].limit), id, <<h[id].limit>>)
              ELSE h
    IN Ok(IF h1[id].offset > 0
          THEN addArgs(WritePlaceholder(WriteString(h1, id, <<" OFFSET ">>), id,
                                        h1[id].offset), id, <<h1[id].offset>>)
          ELSE h1)

\* Selector.Build once the registry answered with (g.m, g.err).
selectorClauses(h, id, g, s) ==
    IF g.err # NoErr THEN Fail([h EXCEPT ![id].model = g.m], g.err)
    ELSE Push(WriteString([h EXCEPT ![id].model = g.m], id, <<"SELECT ">>),
              <<Frame("buildColumns", id, Nil, Nil, Nil),
                FWriteString(id, <<" FROM ">>), FBuildTable(id, s.table)>>
              \o (IF Len(s.where) > 0
                  THEN <<FWriteString(id, <<" WHERE ">>), FBuildPredicates(id, s.where)>>
                  ELSE <<>>)
              \o (IF Len(s.groupBy) > 0
                  THEN <<FWriteString(id, <<" GROUP BY ">>), FBuildGroupBy(id, 1)>>
                  ELSE <<>>)
              \o (IF Len(s.having) > 0
                  THEN <<FWriteString(id, <<" HAVING ">>), FBuildPredicates(id, s.having)>>
                  ELSE <<>>)
              \o <<Frame("limitOffset", id, Nil, Nil, Nil), FWriteString(id, <<";">>)>>)

SelectorBuild(h, id) == selectorClauses(h, id, RegistryGet(PtrTo(h[id].T)), h[id])

\* ------------------------------------------------------------------ value extraction

\* valuer.Field: the current value of the record's field of that declared
\* name.  A record is a function from declared field names to values.
ValuerField(rec, name) ==
    IF name \in DOMAIN rec THEN [val |-> rec[name], err |-> NoErr]
    ELSE [val |-> 0, err |-> NewErrUnknownField(name)]

\* new(T): the zero record of a declared struct.
ZeroRecord(T) ==
    [n \in {Str(StructDecl[T].fields[i].name) : i \in 1..Len(StructDecl[T].fields)} |-> 0]

\* "?" written, then the field read, then the value bound.
fieldPlaceholder(h, id, rec, name) ==
    LET v == ValuerField(rec, name)
        h1 == WritePlaceholder(h, id, v.val)
    IN IF v.err # NoErr THEN Fail(h1, v.err) ELSE Ok(addArgs(h1, id, <<v.val>>))

\* ------------------------------------------------------------------ dialects

\* The self-referencing form of one upserted column.
MysqlUpsertColumn(h, id, name) ==
    WriteString(quote(WriteString(quote(h, id, name), id, <<"=VALUES(">>), id, name),
                id, <<")">>)
\* The column written bare.
UpsertColumnBare(h, id, name) == WriteString(h, id, <<name, "=excluded.", name>>)

SqliteUpsertColumn(h, id, name) ==
    quote(WriteString(quote(h, id, name), id, <<"=excluded.">>), id, name)

writeUpsertColumn(h, id, cn) ==
    IF cn.err # NoErr THEN Fail(h, cn.err)
    ELSE Ok(IF h[id].dialect = MySQL THEN MysqlUpsertColumn(h, id, cn.name)
            ELSE SqliteUpsertColumn(h, id, cn.name))

upsertColumn(h, id, a) == writeUpsertColumn(h, id, colName(h[id], a.table, a.name))

\* The loop over odk.assigns of both buildUpsert methods.  An Assignment
\* returns from the method with the result of compiling its expression, so
\* the loop does not go on after it.
FUpsertAssigns(id, assigns, i) == Frame("upsertAssigns", id, assigns, i, Nil)
upsertAssigns(h, id, assigns, i) ==
    IF i > Len(assigns) THEN Ok(h)
    ELSE LET a == assigns[i]
         IN CASE a.k = "Column" ->
                    Push(h, Separator(id, i)
                            \o <<Frame("upsertColumn", id, a, Nil, Nil),
                                 FUpsertAssigns(id, assigns, i + 1)>>)
              [] a.k = "Assignment" ->
                    Push(h, Separator(id, i)
                            \o <<FBuildColumn(id, Nil, a.column), FWriteString(id, <<"=">>),
                                 FBuildExpression(id, a.val)>>)
              [] OTHER ->
                    Push(h, Separator(id, i)
                            \o <<Frame("fail", id, NewErrUnsupportedAssignableType(a.k),
                                       Nil, Nil)>>)

mysqlBuildUpsert(h, id, odk) ==
    Push(WriteString(h, id, <<" ON DUPLICATE KEY UPDATE ">>),
         <<FUpsertAssigns(id, odk.assigns, 1)>>)

FConflictColumns(id, cols, i) == Frame("conflictColumnsFrom", id, cols, i, Nil)
conflictColumnsFrom(h, id, cols, i) ==
    IF i > Len(cols) THEN Ok(h)
    ELSE Push(h, Separator(id, i)
                 \o <<FBuildColumn(id, Nil, cols[i]), FConflictColumns(id, cols, i + 1)>>)

sqlite3BuildUpsert(h, id, odk) ==
    Push(WriteString(h, id, <<" ON CONFLICT">>),
         (IF Len(odk.conflictColumns) > 0
          THEN <<FWriteString(id, <<"(">>), FConflictColumns(id, odk.conflictColumns, 1),
                 FWriteString(id, <<")">>)>>
          ELSE <<>>)
         \o <<FWriteString(id, <<" DO UPDATE SET ">>), FUpsertAssigns(id, odk.assigns, 1)>>)

buildUpsert(h, id, odk) ==
    IF h[id].dialect = MySQL THEN mysqlBuildUpsert(h, id, odk)
    ELSE sqlite3BuildUpsert(h, id, odk)

\* ------------------------------------------------------------------ Inserter

\* Every field of the Model, whatever the Columns list names.
InsertAllFields(m, cols, i, got) == [fields |-> m.Fields, err |-> NoErr]

\* The target fields: the Columns list looked up in FieldMap, or all fields.
RECURSIVE insertFields(_, _, _, _)
insertFields(m, cols, i, got) ==
    IF i > Len(cols) THEN [fields |-> got, err |-> NoErr]
    ELSE IF cols[i] \notin DOMAIN m.FieldMap
         THEN [fields |-> <<>>, err |-> NewErrUnknownField(cols[i])]
         ELSE insertFields(m, cols, i + 1, Append(got, m.Fields[m.FieldMap[cols[i]]]))

RECURSIVE insertColumnNames(_, _, _, _)
insertColumnNames(h, id, fields, i) ==
    IF i > Len(fields) THEN h
    ELSE insertColumnNames(
             quote(IF i > 1 THEN WriteString(h, id, <<",">>) ELSE h, id, fields[i].ColName),
             id, fields, i + 1)

\* One row: "?" per target field, its value read from the record.
FInsertRow(id, rec, fields, i) == Frame("insertRow", id, rec, fields, i)
insertRow(h, id, rec, fields, i) ==
    IF i > Len(fields) THEN Ok(h)
    ELSE Push(h, Separator(id, i)
                 \o <<Frame("fieldPlaceholder", id, rec, fields[i].GoName, Nil),
                      FInsertRow(id, rec, fields, i + 1)>>)

FInsertRows(id, fields, i) == Frame("insertRows", id, fields, i, Nil)
insertRows(h, id, fields, i) ==
    IF i > Len(h[id].values) THEN Ok(h)
    ELSE Push(h, Separator(id, i)
                 \o <<FWriteString(id, <<"(">>), FInsertRow(id, h[id].values[i], fields, 1),
                      FWriteString(id, <<")">>), FInsertRows(id, fields, i + 1)>>)

\* Inserter.Build once the target fields are known: the args start over
\* (i.args = make([]any, 0, ...)), the text does not.
insertInto(h, id, f, i) ==
    IF f.err # NoErr THEN Fail(h, f.err)
    ELSE Push(WriteString(insertColumnNames([h EXCEPT ![id].args = <<>>], id, f.fields, 1),
                          id, <<") VALUES">>),
              <<FInsertRows(id, f.fields, 1)>>
              \o (IF i.upsert # Nil
                  THEN <<Frame("buildUpsert", id, i.upsert, Nil, Nil)>>
                  ELSE <<>>)
              \o <<FWriteString(id, <<";">>)>>)

\* Inserter.Build once the registry answered with (g.m, g.err).
inserterModel(h, id, g, i) ==
    IF g.err # NoErr THEN Fail([h EXCEPT ![id].model = g.m], g.err)
    ELSE insertInto(WriteString(quote(WriteString([h EXCEPT ![id].model = g.m], id,
                                                  <<"INSERT INTO ">>), id, g.m.TableName),
                                id, <<"(">>),
                    id,
                    IF Len(i.icolumns) # 0 THEN insertFields(g.m, i.icolumns, 1, <<>>)
                    ELSE [fields |-> g.m.Fields, err |-> NoErr],
                    i)

\* A Build that does not look at the number of rows.
InserterBuildAnyRows(h, id) == Push(h, <<FWriteString(id, <<"INSERT INTO ", ";">>)>>)

InserterBuild(h, id) ==
    IF Len(h[id].values) = 0 THEN Fail(h, ErrInsertZeroRow)
    ELSE inserterModel(h, id, RegistryGet(PtrTo(h[id].T)), h[id])

\* ------------------------------------------------------------------ Updater

buildAssignment(h, id, assign) ==
    Push(h, <<FBuildColumn(id, Nil, assign.column), FWriteString(id, <<"=">>),
              FBuildExpression(id, assign.val)>>)

FUpdateAssigns(id, i) == Frame("updateAssigns", id, i, Nil, Nil)
updateAssigns(h, id, i) ==
    IF i > Len(h[id].assigns) THEN Ok(h)
    ELSE LET a == h[id].assigns[i]
         IN CASE a.k = "Column" ->
                    Push(h, Separator(id, i)
                            \o <<FBuildColumn(id, a.table, a.name), FWriteString(id, <<"=">>),
                                 Frame("fieldPlaceholder", id, h[id].val, a.name, Nil),
                                 FUpdateAssigns(id, i + 1)>>)
              [] a.k = "Assignment" ->
                    Push(h, Separator(id, i)
                            \o <<Frame("buildAssignment", id, a, Nil, Nil),
                                 FUpdateAssigns(id, i + 1)>>)
              [] OTHER ->
                    Push(h, Separator(id, i)
                            \o <<Frame("fail", id, NewErrUnsupportedAssignableType(a.k),
                                       Nil, Nil)>>)

\* Updater.Build once u.val is set and the registry answered.
updaterClauses(h, id, g, u) ==
    IF g.err # NoErr THEN Fail(h, g.err)
    ELSE Push(WriteString(quote(WriteString([h EXCEPT ![id].model = g.m], id, <<"UPDATE ">>),
                                id, g.m.TableName),
                          id, <<" SET ">>),
              <<FUpdateAssigns(id, 1)>>
              \o (IF Len(u.where) > 0
                  THEN <<FWriteString(id, <<" WHERE ">>), FBuildPredicates(id, u.where)>>
                  ELSE <<>>)
              \o <<FWriteString(id, <<";">>)>>)

UpdaterBuild(h, id) ==
    IF Len(h[id].assigns) = 0 THEN Fail(h, ErrNoUpdatedColumns)
    ELSE updaterClauses(IF h[id].val = Nil
                        THEN [h EXCEPT ![id].val = ZeroRecord(h[id].T)]
                        ELSE h,
                        id, RegistryGet(PtrTo(h[id].T)), h[id])

\* ------------------------------------------------------------------ Deleter

NewErrUnsupportedType(k) == "unsupported expression type: " \o k

\* Deleter.buildExpression: a column is its name as given between
\* backquotes, a predicate is left, operator, right.
FDeleterExpression(id, e) == Frame("deleterExpression", id, e, Nil, Nil)
deleterExpression(h, id, e) ==
    CASE e.k = "nil" -> Ok(h)
      [] e.k = "Column" -> Ok(WriteString(h, id, <<"'", e.name, "'">>))
      [] e.k = "value" -> Ok(addArgs(WritePlaceholder(h, id, e.val), id, <<e.val>>))
      [] e.k = "Predicate" ->
            Push(h, <<FDeleterExpression(id, e.left), FWriteString(id, <<" ", e.op, " ">>),
                      FDeleterExpression(id, e.right)>>)
      [] OTHER -> Fail(h, NewErrUnsupportedType(e.k))

\* The loop over d.where.
FDeleterWhere(id, i) == Frame("deleterWhere", id, i, Nil, Nil)
deleterWhere(h, id, i) ==
    IF i > Len(h[id].where) THEN Ok(h)
    ELSE Push(h, (IF i > 1 THEN <<FWriteString(id, <<" AND ">>)>> ELSE <<>>)
                 \o <<FDeleterExpression(id, h[id].where[i]), FDeleterWhere(id, i + 1)>>)

\* reflect.TypeOf(t).Name(): the name of the record type as declared.
TypeName(T) == Str(StructDecl[T].name)

DeleterBuild(h, id) ==
    Push(WriteString(h, id,
                     <<"DELETE FROM ">>
                     \o (IF h[id].table.s = "" THEN <<"'", TypeName(h[id].T), "'">>
                         ELSE <<h[id].table.s>>)),
         (IF Len(h[id].where) > 0
          THEN <<FWriteString(id, <<" WHERE ">>), FDeleterWhere(id, 1)>>
          ELSE <<>>)
         \o <<FWriteString(id, <<";">>)>>)

\* ------------------------------------------------------------------ Build

\* One pending call carried out.
Call(h, f) ==
    CASE f.op = "WriteString" -> Ok(WriteString(h, f.id, f.x))
      [] f.op = "fail" -> Fail(h, f.x)
      [] f.op = "raw" -> Ok(raw(h, f.id, f.x))
      [] f.op = "buildAs" -> Ok(buildAs(h, f.id, f.x))
      [] f.op = "buildColumn" -> buildColumn(h, f.id, f.x, f.y)
      [] f.op = "buildAggregate" -> buildAggregate(h, f.id, f.x, f.y)
      [] f.op = "buildExpression" -> buildExpression(h, f.id, f.x)
      [] f.op = "buildBinaryExpr" -> buildBinaryExpr(h, f.id, f.x)
      [] f.op = "buildSubExpr" -> buildSubExpr(h, f.id, f.x)
      [] f.op = "buildSubquery" -> buildSubquery(h, f.id, f.x, f.y)
      [] f.op = "spliceSubquery" -> spliceSubquery(h, f.id, f.x, f.y)
      [] f.op = "buildPredicates" -> buildPredicates(h, f.id, f.x)
      [] f.op = "buildColumns" -> buildColumns(h, f.id)
      [] f.op = "buildColumnsFrom" -> buildColumnsFrom(h, f.id, f.x)
      [] f.op = "buildTable" -> buildTable(h, f.id, f.x)
      [] f.op = "buildUsing" -> buildUsing(h, f.id, f.x, f.y)
      [] f.op = "buildGroupBy" -> buildGroupBy(h, f.id, f.x)
      [] f.op = "limitOffset" -> limitOffset(h, f.id)
      [] f.op = "fieldPlaceholder" -> fieldPlaceholder(h, f.id, f.x, f.y)
      [] f.op = "upsertColumn" -> upsertColumn(h, f.id, f.x)
      [] f.op = "upsertAssigns" -> upsertAssigns(h, f.id, f.x, f.y)
      [] f.op = "conflictColumnsFrom" -> conflictColumnsFrom(h, f.id, f.x, f.y)
      [] f.op = "buildUpsert" -> buildUpsert(h, f.id, f.x)
      [] f.op = "insertRow" -> insertRow(h, f.id, f.x, f.y, f.z)
      [] f.op = "insertRows" -> insertRows(h, f.id, f.x, f.y)
      [] f.op = "buildAssignment" -> buildAssignment(h, f.id, f.x)
      [] f.op = "updateAssigns" -> updateAssigns(h, f.id, f.x)
      [] f.op = "deleterExpression" -> deleterExpression(h, f.id, f.x)
      [] f.op = "deleterWhere" -> deleterWhere(h, f.id, f.x)
      [] f.op = "Build" ->
            CASE h[f.id].kind = "Selector" -> SelectorBuild(h, f.id)
              [] h[f.id].kind = "Inserter" -> InserterBuild(h, f.id)
              [] h[f.id].kind = "Updater" -> UpdaterBuild(h, f.id)
              [] h[f.id].kind = "Deleter" -> DeleterBuild(h, f.id)
              [] h[f.id].kind = "RawQuerier" -> Ok(h)

\* The pending calls carried out in order until none is left or one fails:
\* every caller in the compiler returns the error of its callee at once.
RECURSIVE Run(_, _)
Continue(r, rest) ==
    IF r.err # NoErr THEN [h |-> r.h, err |-> r.err] ELSE Run(r.h, r.push \o rest)

Run(h, stack) ==
    IF Len(stack) = 0 THEN [h |-> h, err |-> NoErr]
    ELSE Continue(Call(h, Head(stack)), Tail(stack))

\* QueryBuilder.Build on statement id: (nil, err), or the Query made of the
\* text and the args as they are when the terminator has been written.
Finished(r, id) == IF r.err # NoErr THEN BuildFail(r.h, r.err) ELSE BuildOk(r.h, id)

Build(h, id) == Finished(Run(h, <<FBuild(id)>>), id)

\* ------------------------------------------------------------------ statements built

\* Comparisons of a column of TestModel with a literal or with arithmetic on
\* a column; "Nope" is a field TestModel does not declare.
Comparisons ==
    {GT(C("Id"), Lit(v)) : v \in Vals} \cup {LT(C("Age"), Lit(v)) : v \in Vals}
    \cup {EQ(C("Age"), ColumnAdd(C("Id"), 1)), EQ(C("Nope"), Lit(1))}

\* Predicates of one combinator over comparisons, and of two.
Combined(L, R) == {And(l, r) : l \in L, r \in R} \cup {Or(l, r) : l \in L, r \in R}
Predicates1 == Comparisons \cup {Not(a) : a \in Comparisons} \cup Combined(Comparisons, Comparisons)
Predicates2 ==
    Predicates1 \cup {Not(p) : p \in Predicates1}
    \cup Combined(Predicates1 \ Comparisons, Comparisons)
    \cup Combined(Comparisons, Predicates1 \ Comparisons)

Dialects == {MySQL, SQLite3}

\* NewSelector[TestModel](db).Where(p)
WhereHeaps ==
    {<<[NewSelector("TestModel", MySQL) EXCEPT !.where = <<p>>]>> : p \in Predicates2}

\* NewSelector[TestModel](db).Where(a, b).Limit(l).Offset(o)
LimitHeaps ==
    {<<[NewSelector("TestModel", MySQL) EXCEPT !.where = ps, !.limit = l, !.offset = o]>> :
        ps \in {<<a>> : a \in Comparisons} \cup {<<a, b>> : a \in Comparisons, b \in Comparisons},
        l \in 0..MaxVal, o \in 0..MaxVal}

\* NewSelector[TestModel](db).Where(a, b, c)
ListHeaps ==
    {<<[NewSelector("TestModel", MySQL) EXCEPT !.where = <<a, b, c>>]>> :
        a \in {GT(C("Id"), Lit(1)), Not(LT(C("Age"), Lit(2)))},
        b \in {LT(C("Age"), Lit(2)), Or(GT(C("Id"), Lit(2)), LT(C("Age"), Lit(1)))},
        c \in Comparisons}

\* NewSelector[TestModel](db).Where(C("Age").EQ(e)), e arithmetic on a column.
MathHeaps ==
    {<<[NewSelector("TestModel", MySQL) EXCEPT !.where = <<EQ(C("Age"), e)>>]>> :
        e \in UNION {{ColumnAdd(C("Id"), v), ColumnMulti(C("Id"), v),
                      MathMulti(ColumnAdd(C("Id"), v), 2), MathAdd(ColumnMulti(C("Id"), v), 1)} :
                     v \in Vals}}

\* Joins of Order (left) with Item (right), one level and two.
OrderT == TableOf(PtrTo("Order"))
ItemT == TableOf(PtrTo("Item"))
TestModelT == TableOf(PtrTo("TestModel"))
Joins ==
    { JoinOn(OrderT, ItemT, "JOIN", <<>>),
      JoinOn(OrderT, ItemT, "LEFT JOIN",
             <<EQ(TableC(TableAs(OrderT, "o"), "Id"), TableC(TableAs(ItemT, "i"), "Id"))>>),
      JoinOn(JoinOn(OrderT, ItemT, "JOIN", <<>>), TestModelT, "JOIN", <<>>),
      JoinOn(TestModelT, JoinOn(OrderT, ItemT, "JOIN", <<>>), "RIGHT JOIN", <<>>),
      JoinUsing(OrderT, ItemT, "JOIN", <<"Id">>) }

JoinFields == {"Id", "UserId", "Sku", "Age", "Nope"}

\* sub := NewSelector[Order](db).From(join).AsSubquery("sub")
\* NewSelector[Order](db).Select(sub.C(fd)).From(sub).Where(sub.C(fd).EQ(v))
JoinHeap(j, fd, ps) ==
    LET inner == [NewSelector("Order", MySQL) EXCEPT !.table = j]
        h == <<NewSelector("Order", MySQL), inner>>
        sub == AsSubquery(h, 2, "sub")
    IN [h EXCEPT ![1].columns = <<SubqueryC(sub, fd)>>, ![1].table = sub, ![1].where = ps]

JoinHeaps ==
    {JoinHeap(j, fd, ps) : j \in Joins, fd \in JoinFields,
                           ps \in {<<>>} \cup {<<EQ(C("Id"), Lit(v))>> : v \in Vals}}


\* t := TableOf(&Item{}).As("i");
\* NewSelector[Order](db).Select(t.C(f).As("x")).From(t), and the same
\* without As.
AliasedTables == {TableAs(ItemT, "i"), TableAs(OrderT, "o")}
AliasColumns(t) ==
    UNION {{TableC(t, f), ColumnAs(TableC(t, f), "x"), ColumnAs(C(f), "x")} :
              f \in {"Id", "Sku", "UserId"}}
AliasHeaps ==
    UNION {{<<[NewSelector("Order", MySQL) EXCEPT !.columns = <<c>>, !.table = t]>> :
               c \in AliasColumns(t)} : t \in AliasedTables}

\* sub := NewSelector[TestModel](db).Select(cols).Where(a).AsSubquery("sub")
\* and an outer Selector using sub as a value (IN, EXIST, ANY, ALL, SOME) or
\* as its table.
SubqueryHeaps ==
    LET inners == {GT(C("Id"), Lit(v)) : v \in Vals}
        outers == {LT(C("Age"), Lit(v)) : v \in Vals}
        subOf(cols, a) ==
            AsSubquery(<<NewSelector("TestModel", MySQL),
                         [NewSelector("TestModel", MySQL) EXCEPT !.columns = cols,
                                                                 !.where = <<a>>]>>, 2, "sub")
        heap(cols, a, where, table) ==
            << [NewSelector("TestModel", MySQL) EXCEPT !.where = where, !.table = table],
               [NewSelector("TestModel", MySQL) EXCEPT !.columns = cols, !.where = <<a>>] >>
    IN UNION { { heap(cols, a, <<b, InQuery(C("Id"), subOf(cols, a))>>, Nil),
                 heap(cols, a, <<InQuery(C("Id"), subOf(cols, a)), b>>, Nil),
                 heap(cols, a, <<Exist(subOf(cols, a)), b>>, Nil),
                 heap(cols, a, <<EQ(C("Id"), AnyOf(subOf(cols, a))), b>>, Nil),
                 heap(cols, a, <<b, GT(C("Id"), All(subOf(cols, a)))>>, Nil),
                 heap(cols, a, <<LT(C("Id"), Some(subOf(cols, a))), b>>, Nil),
                 heap(cols, a, <<b>>, subOf(cols, a)),
                 heap(cols, a, <<InQuery(C("Id"), subOf(cols, a)), b>>, subOf(cols, a)) } :
               cols \in {<<>>, <<C("Id")>>}, a \in inners, b \in outers }

\* sub := NewSelector[TestModel](db).Select(cols).AsSubquery("sub")
\* NewSelector[TestModel](db).Select(sub.C(fd)).From(sub)
ProjectedLists ==
    { <<>>, <<C("Id")>>,
      <<C("Id"), ColumnAs(C("Age"), "Id")>>,
      <<ColumnAs(C("Age"), "Id"), C("Id")>>,
      <<ColumnAs(C("Age"), "a"), C("FirstName")>> }

ProjectionHeap(cols, fd) ==
    LET h == <<NewSelector("TestModel", MySQL),
               [NewSelector("TestModel", MySQL) EXCEPT !.columns = cols]>>
    IN [h EXCEPT ![1].columns = <<SubqueryC(AsSubquery(h, 2, "sub"), fd)>>,
                 ![1].table = AsSubquery(h, 2, "sub")]

ProjectionHeaps ==
    {ProjectionHeap(cols, fd) : cols \in ProjectedLists,
                                fd \in {"Id", "Age", "FirstName", "a", "Nope"}}

\* Records of TestModel to insert or update from.
TestRecords == {[Id |-> i, FirstName |-> 0, Age |-> a] : i \in Vals, a \in Vals}

Upserts ==
    { Nil,
      Upsert(<<"Id">>, <<C("Age")>>),
      Upsert(<<"Id">>, <<C("Age"), C("FirstName")>>),
      Upsert(<<"Id">>, <<Assign("Age", Lit(1))>>),
      Upsert(<<"Id">>, <<C("FirstName"), Assign("Age", ColumnAdd(C("Age"), 1))>>),
      Upsert(<<"Id">>, <<Assign("Age", Lit(1)), C("FirstName")>>),
      Upsert(<<"Id">>, <<Assign("Age", Lit(1)), Assign("FirstName", Lit(2))>>) }

\* NewInserter[TestModel](db).Columns(cols).Values(rows).OnDuplicateKey()...
InserterHeaps ==
    {<<[NewInserter("TestModel", d) EXCEPT !.values = vs, !.icolumns = cols, !.upsert = u]>> :
        d \in Dialects,
        vs \in {<<>>} \cup {<<r>> : r \in TestRecords}
               \cup {<<r, [Id |-> 1, FirstName |-> 0, Age |-> 1]>> : r \in TestRecords},
        cols \in {<<>>, <<"Age", "Id">>, <<"Nope">>},
        u \in Upserts}

\* NewInserter[Order](db).Values(row).OnDuplicateKey()...: a record type
\* whose column names come from tags.
OrderInserterHeaps ==
    {<<[NewInserter("Order", d) EXCEPT !.values = <<[Id |-> 1, UserId |-> 2]>>, !.upsert = u]>> :
        d \in Dialects,
        u \in {Upsert(<<"Id">>, <<C("UserId")>>), Upsert(<<"Id">>, <<C("Id")>>),
               Upsert(<<"Id">>, <<Assign("UserId", Lit(2)), C("Id")>>)}}

\* NewUpdater[TestModel](db).Update(rec).Set(assigns).Where(ps)
UpdaterHeaps ==
    {<<[NewUpdater("TestModel", MySQL) EXCEPT !.val = rec, !.assigns = as, !.where = ps]>> :
        rec \in {Nil} \cup TestRecords,
        as \in { <<>>, <<C("Age")>>, <<C("Age"), Assign("FirstName", Lit(2))>>,
                 <<Assign("Age", ColumnAdd(C("Age"), 1)), C("Id")>>, <<C("Nope")>> },
        ps \in {<<>>} \cup {<<GT(C("Id"), Lit(v))>> : v \in Vals}}

\* NewDeleter[TestModel](db).From(tbl).Where(ps)
DeleterLists ==
    {<<>>} \cup {<<a>> : a \in Comparisons} \cup {<<Not(a)>> : a \in Comparisons}
    \cup {<<a, b>> : a \in Comparisons, b \in Comparisons}
    \cup {<<p>> : p \in Combined({GT(C("Id"), Lit(1))},
                                {LT(C("Age"), Lit(2)), Not(LT(C("Age"), Lit(1)))})}
    \cup {<<Or(And(GT(C("Id"), Lit(1)), LT(C("Age"), Lit(2))), GT(C("Id"), Lit(2)))>>}

DeleterHeaps ==
    {<<[NewDeleter("TestModel") EXCEPT !.table = GoString(tbl), !.where = ps]>> :
        tbl \in {"", "t"}, ps \in DeleterLists}

Heaps == DeleterHeaps \cup WhereHeaps \cup LimitHeaps \cup ListHeaps \cup MathHeaps \cup AliasHeaps \cup JoinHeaps \cup SubqueryHeaps
         \cup ProjectionHeaps
         \cup InserterHeaps \cup OrderInserterHeaps \cup UpdaterHeaps

\* ------------------------------------------------------------------ the caller of Build

NotRunning == "idle"

\* The other components at rest.
PipelineIdle ==
    /\ pc = NotRunning /\ call = Nil /\ depth = 0 /\ log = <<>>
    /\ cur = Nil /\ acc = <<>> /\ ret = Nil /\ db = Nil /\ calls = 0
RegistryIdle ==
    /\ models = EmptyMap /\ cpc = <<>> /\ cloc = <<>> /\ cret = <<>>
BuilderIdle ==
    /\ objs = <<>> /\ root = 0 /\ builds = 0 /\ q = <<>>

BuildInit ==
    /\ objs \in Heaps
    /\ root = 1
    /\ builds = 0
    /\ q = <<>>
    /\ PipelineIdle /\ RegistryIdle

\* What Build returned is kept; the statement object is as Build left it.
Returned(r) ==
    /\ objs' = r.h
    /\ q' = Append(q, [err |-> r.err, SQL |-> r.q.SQL, Args |-> r.q.Args, PH |-> r.q.PH])

\* The caller calls Build on its statement object.
CallBuild ==
    /\ builds < MaxBuilds
    /\ Returned(Build(objs, root))
    /\ builds' = builds + 1
    /\ UNCHANGED <<root, evars, rvars>>

BuildNext == CallBuild

BuildSpec == BuildInit /\ [][BuildNext]_vars

\* ------------------------------------------------------------------ properties of Build

\* The number of placeholders in a text.
Placeholders(sql) == Cardinality({i \in DOMAIN sql : sql[i] = "?"})

\* C1: every Query that Build returns without error has as many "?"
\* placeholders in its text as it has Args, and the i-th placeholder in text
\* order was written for Args[i].
C1_PlaceholdersMatchArgs ==
    \A i \in DOMAIN q :
        q[i].err = NoErr =>
            /\ Placeholders(q[i].SQL) = Len(q[i].Args)
            /\ q[i].PH = q[i].Args

\* The text of the WHERE clause of a Selector's Query: what follows " WHERE "
\* up to the LIMIT clause, the OFFSET clause or the terminator.
First(sql, toks) == CHOOSE i \in DOMAIN sql : sql[i] \in toks /\ \A j \in 1..(i-1) : sql[j] \notin toks
WhereText(sql) ==
    SubSeq(sql, First(sql, {" WHERE "}) + 1, First(sql, {" LIMIT ", " OFFSET ", ";"}) - 1)

\* The value the placeholder at position pos is bound to: the k-th "?" of
\* the text takes the k-th argument.
ArgAt(toks, args, pos) == args[Cardinality({i \in 1..pos : toks[i] = "?"})]

OperatorTokens == {opEQ, opLT, opGT, opIN, opExist, opAND, opOR, opNOT, opAdd, opMulti}
NodeOf(l, op, r) ==
    IF op \in {opAdd, opMulti} THEN MathExpr(l, op, r) ELSE Predicate(l, op, r)
Unparsed(toks) == [t |-> [k |-> "unparsed"], pos |-> Len(toks) + 2]

\* A parser of the text by its parentheses.  An operand is a parenthesized
\* binary node, a quoted column, a placeholder, or nothing; a binary node is
\* an operand, then an operator, then an operand.  m maps column names back
\* to field names.
RECURSIVE ParseBinary(_, _, _, _)
CloseParen(toks, r) ==
    IF r.pos <= Len(toks) /\ toks[r.pos] = ")" THEN [t |-> r.t, pos |-> r.pos + 1]
    ELSE Unparsed(toks)

ParseOperand(toks, args, m, pos) ==
    IF pos > Len(toks) THEN [t |-> Nil, pos |-> pos]
    ELSE CASE toks[pos] = "(" -> CloseParen(toks, ParseBinary(toks, args, m, pos + 1))
           [] toks[pos] = "?" -> [t |-> valueOf(ArgAt(toks, args, pos)), pos |-> pos + 1]
           [] toks[pos] = "'" /\ pos + 2 <= Len(toks) /\ toks[pos + 1] \in DOMAIN m.ColumnMap ->
                [t |-> C(m.Fields[m.ColumnMap[toks[pos + 1]]].GoName), pos |-> pos + 3]
           [] OTHER -> [t |-> Nil, pos |-> pos]

WithRight(l, op, r) == [t |-> NodeOf(l.t, op, r.t), pos |-> r.pos]

AfterLeft(toks, args, m, l) ==
    IF l.pos + 2 <= Len(toks) /\ toks[l.pos] = " " /\ toks[l.pos + 1] \in OperatorTokens
       /\ toks[l.pos + 2] = " "
    THEN WithRight(l, toks[l.pos + 1], ParseOperand(toks, args, m, l.pos + 3))
    ELSE l

ParseBinary(toks, args, m, pos) == AfterLeft(toks, args, m, ParseOperand(toks, args, m, pos))

Whole(toks, r) == IF r.pos = Len(toks) + 1 THEN r.t ELSE Unparsed(toks).t
Reparsed(toks, args, m) == Whole(toks, ParseBinary(toks, args, m, 1))

\* A Selector of its own table with a WHERE clause, built once or more.
BuiltWhere ==
    /\ builds >= 1 /\ Len(objs) = 1 /\ objs[root].kind = "Selector"
    /\ Len(objs[root].where) > 0 /\ q[1].err = NoErr

\* C2: the WHERE text of a Selector, parsed by its parentheses, is the tree
\* of And, Or, Not and comparisons that was given to Where.
C2_ParenthesesRoundTrip ==
    BuiltWhere =>
        Reparsed(WhereText(q[1].SQL), q[1].Args, objs[root].model)
            = FoldAnd(objs[root].where[1], objs[root].where, 2)

\* C2 witness: a built predicate of the shape (NOT (a)) OR (b).
C2_NestedBuilt ==
    /\ BuiltWhere
    /\ objs[root].where[1].op = opOR
    /\ objs[root].where[1].left.k = "Predicate"
    /\ objs[root].where[1].left.op = opNOT

\* A Selector over a subquery over a join, selecting one field through the
\* subquery, built once or more.
BuiltJoin ==
    /\ builds >= 1 /\ Len(objs) = 2
    /\ objs[root].table.k = "Subquery" /\ objs[root].table.table.k = "Join"
    /\ Len(objs[root].columns) = 1

\* The resolution the left-first rule gives: the left relation's column when
\* the field exists there, else the right relation's.
RECURSIVE LeftFirst(_, _)
OrElse(l, r) == IF l.err = NoErr THEN l ELSE r
LeftFirst(table, fd) ==
    IF table.k = "Join" THEN OrElse(LeftFirst(table.left, fd), LeftFirst(table.right, fd))
    ELSE tableColumn(RegistryGet(table.entity), fd)

\* In the text of such a Selector the selected column is the 7th token:
\* SELECT 'sub'.'column'
SelectedColumn(sql) == sql[7]
IsLeftFirst(e, r) == e.err = NoErr => (r.err = NoErr /\ SelectedColumn(r.SQL) = e.name)

\* C3: a field selected through a join resolves to the left relation's
\* column when the left relation has the field, and to the right relation's
\* column when only the right relation has it.
C3_JoinResolvesLeftFirst ==
    BuiltJoin => IsLeftFirst(LeftFirst(objs[root].table.table, objs[root].columns[1].name), q[1])

\* The field names an expression mentions.
RECURSIVE Mentions(_)
Mentions(e) ==
    CASE e.k = "Column" -> {e.name}
      [] e.k \in {"Predicate", "MathExpr"} -> Mentions(e.left) \cup Mentions(e.right)
      [] OTHER -> {}

HasEmptyName(sql) ==
    \E j \in 1..(Len(sql) - 2) : sql[j] = "'" /\ sql[j + 1] = "" /\ sql[j + 2] = "'"

\* C4: a statement that references a field its table reference cannot
\* resolve is not built (here: a field neither side of a join has, and a
\* field the Selector's own Model has not), and no Query holds an empty
\* column name.
C4_UnresolvedFieldFails ==
    /\ \A i \in DOMAIN q : q[i].err = NoErr => ~HasEmptyName(q[i].SQL)
    /\ BuiltJoin /\ LeftFirst(objs[root].table.table, objs[root].columns[1].name).err # NoErr
         => q[1].err # NoErr
    /\ builds >= 1 /\ Len(objs) = 1 /\ objs[root].kind = "Selector"
       /\ (\E i \in DOMAIN objs[root].where : "Nope" \in Mentions(objs[root].where[i]))
         => q[1].err # NoErr

\* ------------------------------------------------------------------ execution pipeline

\* QueryResult{Result, Err}
QueryResult(result, err) == [k |-> "QueryResult", Result |-> result, Err |-> err]

\* What a Result field can hold: a driver result, a record pointer (*T), a
\* slice of record pointers ([]*T), or nil.
SqlResult == [k |-> "sql.Result", id |-> 1, n |-> 1]
RecordPtr(T) == [k |-> "*T", T |-> T]
Records(rs) == [k |-> "[]*T", rs |-> rs]

\* Errors from outside the library.
ErrSession == "session error"
ErrScan == "scan error"
ErrIteration == "iteration error"
ErrMiddleware == "middleware error"
ErrZeroDB == "sql: zero DB"

\* A panic of the calling goroutine.
Panic(why) == [k |-> "panic", why |-> why]

\* Middleware: one that records its entry, calls next, and records its exit;
\* and one that records its entry and returns a QueryResult of its own.
Pass(name) == [name |-> name, kind |-> "pass", res |-> Nil]
Short(name, res) == [name |-> name, kind |-> "short", res |-> res]

\* A HandleFunc: the innermost handler of a core function, or a middleware
\* wrapped around a HandleFunc.
Core(core) == [k |-> "core", core |-> core]
Wrapped(m, next) == [k |-> "mw", m |-> m, next |-> next]

\* A chain wrapped in registration order: the last registered comes outermost.
RECURSIVE WrapForward(_, _, _)
WrapForward(ms, i, handler) ==
    IF i < 1 THEN handler
    ELSE Wrapped(ms[i], WrapForward(ms, i - 1, handler))

\* for i := len(ms) - 1; i >= 0; i-- { handler = ms[i](handler) }
RECURSIVE Wrap(_, _, _)
Wrap(ms, i, handler) ==
    IF i < 1 THEN handler
    ELSE Wrap(ms, i - 1, Wrapped(ms[i], handler))

\* An observed event, with the number of middleware entered at that moment.
Event(e, m) == [e |-> e, m |-> m, depth |-> depth]

\* *sql.Rows: left rows still to read, the iteration error if the cursor
\* failed, the number of Close calls made on it, and whether it has been
\* released (by a Close call, or by database/sql itself when Next returns
\* false).
NewRows(n) == [left |-> n, err |-> NoErr, closes |-> 0, released |-> FALSE]

\* rows.Next(): the next row is there, or there is none left, or fetching it
\* fails.
RowsNext(c) ==
    IF c.left = 0 \/ c.err # NoErr THEN {[ok |-> FALSE, c |-> [c EXCEPT !.released = TRUE]]}
    ELSE {[ok |-> TRUE, c |-> [c EXCEPT !.left = @ - 1]],
          [ok |-> FALSE, c |-> [c EXCEPT !.err = ErrIteration, !.released = TRUE]]}

\* A cursor left open.
LeftOpen(c) == c

\* rows.Close(), as the deferred function of getMultiHandler calls it.
CloseRows(c) == [c EXCEPT !.closes = @ + 1, !.released = TRUE]

\* Result{err, res} and what its accessors returned so far.
NewResult(err, res) ==
    [k |-> "Result", err |-> err, res |-> res, lastInsertId |-> Nil, rowsAffected |-> Nil]

\* Result.LastInsertId: r.res.LastInsertId() on a nil r.res is a nil dereference.
LastInsertId(r) ==
    IF r.err # NoErr THEN [k |-> "int64", v |-> 0, err |-> r.err]
    ELSE IF r.res = Nil THEN Panic("nil dereference")
    ELSE [k |-> "int64", v |-> r.res.id, err |-> NoErr]

\* Result.RowsAffected
RowsAffected(r) ==
    IF r.err # NoErr THEN [k |-> "int64", v |-> 0, err |-> r.err]
    ELSE IF r.res = Nil THEN Panic("nil dereference")
    ELSE [k |-> "int64", v |-> r.res.n, err |-> NoErr]

\* The rows the database holds for the statement are an input of each call.
NewCall(entry, core, handler, rows) ==
    [entry |-> entry, core |-> core, handler |-> handler, rows |-> rows,
     entered |-> <<>>, res |-> Nil, exit |-> ""]

\* An entry point is called on the statement object: everything of the
\* previous call is gone.
StartCall(c, first) ==
    /\ pc = NotRunning /\ calls < MaxCalls
    /\ calls' = calls + 1
    /\ call' = c
    /\ pc' = first
    /\ depth' = 0 /\ log' = <<>> /\ cur' = Nil /\ acc' = <<>> /\ ret' = Nil
    /\ UNCHANGED <<bvars, db, rvars>>

\* get, getMulti and exec: the handler is wrapped in the middleware of the
\* core, then invoked.
Chain(core) == Wrap(db.ms, Len(db.ms), Core(core))

SelectorGet ==
    /\ objs[root].kind = "Selector"
    /\ \E n \in 0..MaxRows : StartCall(NewCall("Selector.Get", "get", Chain("get"), n), "invoke")

RawQuerierGet ==
    /\ objs[root].kind = "RawQuerier"
    /\ \E n \in 0..MaxRows : StartCall(NewCall("RawQuerier.Get", "get", Chain("get"), n), "invoke")

\* getMulti[T](ctx, c, sess, qc) with the statement as qc.Builder.
GetMulti ==
    /\ objs[root].kind \in {"Selector", "RawQuerier"}
    /\ \E n \in 0..MaxRows :
          StartCall(NewCall("getMulti", "getMulti", Chain("getMulti"), n), "invoke")

InserterExec ==
    /\ objs[root].kind = "Inserter"
    /\ StartCall(NewCall("Inserter.Exec", "exec", Chain("exec"), 0), "invoke")

RawQuerierExec ==
    /\ objs[root].kind = "RawQuerier"
    /\ StartCall(NewCall("RawQuerier.Exec", "exec", Chain("exec"), 0), "invoke")

\* Selector.GetMulti and Updater.Exec build and run the statement themselves.
SelectorGetMulti ==
    /\ objs[root].kind = "Selector"
    /\ \E n \in 0..MaxRows : StartCall(NewCall("Selector.GetMulti", "none", Nil, n), "build")

UpdaterExec ==
    /\ objs[root].kind = "Updater"
    /\ StartCall(NewCall("Updater.Exec", "none", Nil, 0), "build")

\* The outermost handler not yet invoked is a middleware: it is entered.  One
\* that passes calls next; one that does not returns its own QueryResult.
MiddlewareEnter ==
    /\ pc = "invoke" /\ call.handler.k = "mw"
    /\ log' = Append(log, Event("enter", call.handler.m.name))
    /\ depth' = depth + 1
    /\ IF call.handler.m.kind = "pass"
       THEN /\ call' = [call EXCEPT !.handler = @.next,
                                    !.entered = Append(@, call.handler.m.name)]
            /\ pc' = "invoke"
       ELSE /\ call' = [call EXCEPT !.entered = Append(@, call.handler.m.name),
                                    !.res = call.handler.m.res]
            /\ pc' = "unwind"
    /\ UNCHANGED <<bvars, cur, acc, ret, db, calls, rvars>>

\* The innermost handler is invoked.
HandlerInvoked ==
    /\ pc = "invoke" /\ call.handler.k = "core"
    /\ log' = Append(log, Event("handler", call.core))
    /\ pc' = "build"
    /\ UNCHANGED <<bvars, call, depth, cur, acc, ret, db, calls, rvars>>

\* Where a call goes on once its statement is built.
AfterBuild(c) ==
    CASE c.core \in {"get", "getMulti"} -> "query"
      [] c.core = "exec" -> "exec"
      [] c.entry = "Updater.Exec" -> "exec"
      [] c.entry = "Selector.GetMulti" -> "zeroDB"

\* Build returned r: an error ends the handler with QueryResult{Err: err}.
Built(r) ==
    /\ objs' = r.h
    /\ q' = Append(q, [err |-> r.err, SQL |-> r.q.SQL, Args |-> r.q.Args, PH |-> r.q.PH])
    /\ IF r.err # NoErr
       THEN /\ call' = [call EXCEPT !.res = QueryResult(Nil, r.err)]
            /\ pc' = "unwind"
       ELSE /\ call' = call
            /\ pc' = AfterBuild(call)

\* qc.Builder.Build(), u.Build(), s.Build()
BuilderBuild ==
    /\ pc = "build"
    /\ Built(Build(objs, root))
    /\ builds' = builds + 1
    /\ log' = Append(log, Event("build", ""))
    /\ UNCHANGED <<root, depth, cur, acc, ret, db, calls, rvars>>

\* sess.queryContext: an error, or a cursor over the rows.
SessionQuery ==
    /\ pc = "query"
    /\ log' = Append(log, Event("session", "queryContext"))
    /\ \/ /\ call' = [call EXCEPT !.res = QueryResult(Nil, ErrSession)]
          /\ pc' = "unwind"
          /\ cur' = cur
       \/ /\ cur' = NewRows(call.rows)
          /\ pc' = "next"
          /\ call' = call
    /\ UNCHANGED <<bvars, depth, acc, ret, db, calls, rvars>>

\* sess.execContext: an error and no driver result, or a driver result.
SessionExec ==
    /\ pc = "exec"
    /\ log' = Append(log, Event("session", "execContext"))
    /\ \E r \in {QueryResult(Nil, ErrSession), QueryResult(SqlResult, NoErr)} :
          call' = [call EXCEPT !.res = r]
    /\ pc' = "unwind"
    /\ UNCHANGED <<bvars, depth, cur, acc, ret, db, calls, rvars>>

\* getHandler: if !rows.Next() the handler ends with ErrNoRows.
GetNext ==
    /\ pc = "next" /\ call.core = "get"
    /\ \E o \in RowsNext(cur) :
          /\ cur' = o.c
          /\ IF o.ok
             THEN pc' = "scan" /\ call' = call
             ELSE pc' = "unwind" /\ call' = [call EXCEPT !.res = QueryResult(Nil, ErrNoRows)]
    /\ UNCHANGED <<bvars, depth, log, acc, ret, db, calls, rvars>>

\* The Model of new(T) was looked up with (g.m, g.err); then the row is
\* scanned into the record, which may fail.
Scanned(g, errs) ==
    IF g.err # NoErr THEN {QueryResult(Nil, g.err)}
    ELSE {QueryResult(RecordPtr(objs[root].T), e) : e \in errs}

\* getHandler: c.r.Get(tp), val.SetColumns(rows), and the QueryResult.
GetScan ==
    /\ pc = "scan"
    /\ \E r \in Scanned(RegistryGet(PtrTo(objs[root].T)), {NoErr, ErrScan}) :
          call' = [call EXCEPT !.res = r]
    /\ pc' = "unwind"
    /\ UNCHANGED <<bvars, depth, log, cur, acc, ret, db, calls, rvars>>

\* getMultiHandler: for rows.Next() { ... }
GetMultiNext ==
    /\ pc = "next" /\ call.core = "getMulti"
    /\ \E o \in RowsNext(cur) :
          /\ cur' = o.c
          /\ pc' = IF o.ok THEN "row" ELSE "rowsErr"
    /\ UNCHANGED <<bvars, call, depth, log, acc, ret, db, calls, rvars>>

\* A handler that returns the records it has with the error.
HandlerReturnsPartial(r, exit) ==
    /\ call' = [call EXCEPT !.res = QueryResult(Records(acc), r.Err), !.exit = exit]
    /\ pc' = "defer"
    /\ acc' = acc

\* The handler returns r by the exit path named; its deferred function is
\* still to run.
HandlerReturns(r, exit) ==
    /\ call' = [call EXCEPT !.res = r, !.exit = exit]
    /\ pc' = "defer"
    /\ acc' = acc

\* getMultiHandler, one row: a Model lookup error and a materialization
\* error end the handler; otherwise the record joins the results.
GetMultiRow ==
    /\ pc = "row"
    /\ \E r \in Scanned(RegistryGet(PtrTo(objs[root].T)), {NoErr, ErrScan}) :
          IF r.Result = Nil THEN HandlerReturns(r, "model lookup error")
          ELSE IF r.Err # NoErr THEN HandlerReturns(QueryResult(Nil, r.Err), "materialization error")
          ELSE /\ acc' = Append(acc, r.Result)
               /\ pc' = "next"
               /\ call' = call
    /\ UNCHANGED <<bvars, depth, log, cur, ret, db, calls, rvars>>

\* getMultiHandler after the loop: rows.Err(), or the results.
GetMultiRowsErr ==
    /\ pc = "rowsErr"
    /\ IF cur.err # NoErr
       THEN HandlerReturns(QueryResult(Nil, cur.err), "iteration error")
       ELSE HandlerReturns(QueryResult(Records(acc), NoErr), "normal completion")
    /\ UNCHANGED <<bvars, depth, log, cur, ret, db, calls, rvars>>

\* The deferred function of getMultiHandler runs as the handler returns.
DeferredClose ==
    /\ pc = "defer"
    /\ cur' = CloseRows(cur)
    /\ pc' = "unwind"
    /\ UNCHANGED <<bvars, call, depth, log, acc, ret, db, calls, rvars>>

\* Selector.GetMulti queries a zero sql.DB of its own: the query returns an
\* error or panics, and after any rows the method panics.
ZeroDBQuery ==
    /\ pc = "zeroDB"
    /\ log' = Append(log, Event("zero DB", "QueryContext"))
    /\ \/ /\ call' = [call EXCEPT !.res = QueryResult(Nil, ErrZeroDB)]
          /\ pc' = "unwind"
          /\ ret' = ret
       \/ /\ \E why \in {"nil dereference", "implement me"} : ret' = Panic(why)
          /\ pc' = NotRunning
          /\ call' = call
    /\ UNCHANGED <<bvars, depth, cur, acc, db, calls, rvars>>

\* The handler returned to the innermost middleware entered: it is left.
MiddlewareExit ==
    /\ pc = "unwind" /\ Len(call.entered) > 0
    /\ log' = Append(log, Event("exit", call.entered[Len(call.entered)]))
    /\ depth' = depth - 1
    /\ call' = [call EXCEPT !.entered = SubSeq(@, 1, Len(@) - 1)]
    /\ UNCHANGED <<bvars, pc, cur, acc, ret, db, calls, rvars>>

\* res.Result.(*T) and qr.Result.(sql.Result): a value of another type panics.
AssertType(res, k, then) ==
    IF res.Result # Nil /\ res.Result.k # k THEN Panic("type assertion") ELSE then

\* What the entry point returns for the QueryResult of its chain.
Returns(c) ==
    CASE c.core = "get" ->
            AssertType(c.res, "*T", [k |-> "(*T, error)", val |-> c.res.Result, err |-> c.res.Err])
      [] c.core = "getMulti" -> c.res
      [] c.core = "exec" -> AssertType(c.res, "sql.Result", NewResult(c.res.Err, c.res.Result))
      [] c.entry = "Updater.Exec" -> NewResult(c.res.Err, c.res.Result)
      [] c.entry = "Selector.GetMulti" -> [k |-> "([]*T, error)", val |-> Nil, err |-> c.res.Err]

\* The chain returned to the entry point, which returns to its caller.
Return ==
    /\ pc = "unwind" /\ Len(call.entered) = 0
    /\ ret' = Returns(call)
    /\ pc' = NotRunning
    /\ UNCHANGED <<bvars, call, depth, log, cur, acc, db, calls, rvars>>

\* The caller reads the Result through its accessors.
CallLastInsertId ==
    /\ pc = NotRunning /\ ret.k = "Result" /\ ret.lastInsertId = Nil
    /\ ret' = [ret EXCEPT !.lastInsertId = LastInsertId(ret)]
    /\ UNCHANGED <<bvars, pc, call, depth, log, cur, acc, db, calls, rvars>>

CallRowsAffected ==
    /\ pc = NotRunning /\ ret.k = "Result" /\ ret.rowsAffected = Nil
    /\ ret' = [ret EXCEPT !.rowsAffected = RowsAffected(ret)]
    /\ UNCHANGED <<bvars, pc, call, depth, log, cur, acc, db, calls, rvars>>

\* The statements executed, and the middleware lists registered.
ExecHeaps ==
    { <<[NewSelector("TestModel", MySQL) EXCEPT !.where = <<GT(C("Id"), Lit(1))>>]>>,
      <<[NewSelector("TestModel", MySQL) EXCEPT !.where = <<EQ(C("Nope"), Lit(1))>>]>>,
      <<[NewInserter("TestModel", MySQL) EXCEPT
            !.values = <<[Id |-> 1, FirstName |-> 0, Age |-> 1]>>]>>,
      <<NewInserter("TestModel", MySQL)>>,
      <<[NewUpdater("TestModel", MySQL) EXCEPT !.assigns = <<Assign("Age", Lit(1))>>]>>,
      <<NewUpdater("TestModel", MySQL)>>,
      <<RawQuery("TestModel", <<"SELECT 1;">>, <<>>)>>,
      <<RawQuery("int", <<"SELECT 1;">>, <<>>)>> }

MiddlewareResults ==
    { QueryResult(Nil, NoErr), QueryResult(Nil, ErrMiddleware),
      QueryResult(SqlResult, NoErr), QueryResult(RecordPtr("TestModel"), NoErr) }

MiddlewareLists ==
    { <<>>, <<Pass("A")>>, <<Pass("A"), Pass("B")>>, <<Pass("B"), Pass("A")>> }
    \cup {<<Short("A", r)>> : r \in MiddlewareResults}
    \cup {<<Pass("A"), Short("B", r)>> : r \in MiddlewareResults}

ExecInit ==
    /\ objs \in ExecHeaps
    /\ root = 1 /\ builds = 0 /\ q = <<>>
    /\ db \in [ms : MiddlewareLists]
    /\ pc = NotRunning /\ call = Nil /\ depth = 0 /\ log = <<>>
    /\ cur = Nil /\ acc = <<>> /\ ret = Nil /\ calls = 0
    /\ RegistryIdle

ExecNext ==
    \/ SelectorGet \/ RawQuerierGet \/ GetMulti \/ InserterExec \/ RawQuerierExec
    \/ SelectorGetMulti \/ UpdaterExec
    \/ MiddlewareEnter \/ HandlerInvoked \/ BuilderBuild
    \/ SessionQuery \/ SessionExec
    \/ GetNext \/ GetScan \/ GetMultiNext \/ GetMultiRow \/ GetMultiRowsErr \/ DeferredClose
    \/ ZeroDBQuery \/ MiddlewareExit \/ Return
    \/ CallLastInsertId \/ CallRowsAffected

ExecSpec == ExecInit /\ [][ExecNext]_vars

\* ------------------------------------------------------------------ properties of the pipeline

\* An entry point has returned (or panicked) and no call is running.
CallOver == calls >= 1 /\ pc = NotRunning

\* The session returned a cursor for a statement the database holds no row for.
ZeroRows == cur # Nil /\ call.rows = 0

\* C5: a fetch-one whose query yields zero rows returns no record and
\* ErrNoRows; a fetch-many whose query yields zero rows (getMulti, and
\* Selector.GetMulti on a statement that builds) returns an empty sequence
\* and a nil error.
C5_ZeroRows ==
    CallOver =>
        /\ call.core = "get" /\ ZeroRows
             => ret = [k |-> "(*T, error)", val |-> Nil, err |-> ErrNoRows]
        /\ call.core = "getMulti" /\ ZeroRows
             => ret = QueryResult(Records(<<>>), NoErr)
        /\ call.entry = "Selector.GetMulti" /\ call.rows = 0 /\ q[Len(q)].err = NoErr
             => /\ ret.k = "([]*T, error)"
                /\ ret.val \in {Nil, Records(<<>>)}
                /\ ret.err = NoErr

\* The handler of getMulti has returned, its deferred function has run.
HandlerLeft == pc \in {"unwind", NotRunning}

AllPass(ms) == \A i \in DOMAIN ms : ms[i].kind = "pass"

C8_SessionInsideChain ==
    \A j \in DOMAIN log : log[j].e = "session" => log[j].depth = Len(db.ms)

\* What the accessor gave, o, on the Result r: no panic, and 0 with the
\* stored error when an error is stored.
AccessorOk(r, o) ==
    o # Nil => /\ o.k # "panic"
               /\ r.err # NoErr => (o.v = 0 /\ o.err = r.err)

\* C9: an accessor of a Result returns 0 and the stored error when an error
\* is stored, and otherwise the driver result's value: it never dereferences
\* a nil driver result.
C9_ResultAccessors ==
    CallOver /\ ret.k = "Result" =>
        /\ AccessorOk(ret, ret.lastInsertId)
        /\ AccessorOk(ret, ret.rowsAffected)

\* ------------------------------------------------------------------ registry: concurrent callers

\* The callers 1..NCallers run concurrently; the caller Later starts when
\* all of them have returned.
Later == NCallers + 1
Callers == 1..NCallers

\* r.models: a sync.Map from the type to the stored *Model.  Load and Store
\* are atomic.
Loaded(ms, typ) == typ.base \in DOMAIN ms

\* A Store that publishes an empty Model.
StoreEmpty(ms, typ, m) == MapPut(ms, typ.base, NilModel)

\* r.models.Store(typ, m)
Store(ms, typ, m) == MapPut(ms, typ.base, m)

\* The options applied in order to the Model under construction; the first
\* that fails ends the loop.
RECURSIVE ApplyOptions(_, _, _)
ApplyNext(r, opts, i) == IF r.err # NoErr THEN r ELSE ApplyOptions(r.m, opts, i + 1)
ApplyOptions(m, opts, i) ==
    IF i > Len(opts) THEN [err |-> NoErr, m |-> m]
    ELSE ApplyNext(ApplyOption(m, opts[i]), opts, i)

\* A caller's call: Get(val) or Register(val, opts...), val of type typ.
RegistryCall(kind, typ, opts) == [kind |-> kind, typ |-> typ, opts |-> opts, m |-> NilModel]

\* The caller returns (m, err).
RegReturn(c, m, err) ==
    /\ cret' = [cret EXCEPT ![c] = [m |-> m, err |-> err]]
    /\ cpc' = [cpc EXCEPT ![c] = "done"]

\* The caller makes its call.
RegBegin(c) ==
    /\ cpc[c] = "start"
    /\ c = Later => \A d \in Callers : cpc[d] = "done"
    /\ cpc' = [cpc EXCEPT ![c] = IF cloc[c].kind = "Get" THEN "load" ELSE "parse"]
    /\ UNCHANGED <<bvars, evars, models, cloc, cret>>

\* registry.Get: m, ok := r.models.Load(typ); a hit is returned, a miss
\* goes on to Register(val).
RegLoad(c) ==
    /\ cpc[c] = "load"
    /\ IF Loaded(models, cloc[c].typ)
       THEN RegReturn(c, models[cloc[c].typ.base], NoErr)
       ELSE cpc' = [cpc EXCEPT ![c] = "parse"] /\ cret' = cret
    /\ UNCHANGED <<bvars, evars, models, cloc>>

\* parseModel returned r.
Parsed(c, r) ==
    IF r.err # NoErr
    THEN RegReturn(c, Nil, r.err) /\ cloc' = cloc
    ELSE /\ cloc' = [cloc EXCEPT ![c].m = r.m]
         /\ cpc' = [cpc EXCEPT ![c] = "options"]
         /\ cret' = cret

\* registry.Register: m, err := r.parseModel(val)
RegParse(c) ==
    /\ cpc[c] = "parse"
    /\ Parsed(c, parseModel(cloc[c].typ))
    /\ UNCHANGED <<bvars, evars, models>>

\* The options were applied with result r.
Applied(c, r) ==
    IF r.err # NoErr
    THEN RegReturn(c, Nil, r.err) /\ cloc' = cloc
    ELSE /\ cloc' = [cloc EXCEPT ![c].m = r.m]
         /\ cpc' = [cpc EXCEPT ![c] = "store"]
         /\ cret' = cret

\* registry.Register: for _, opt := range opts { err = opt(m) ... }
RegOptions(c) ==
    /\ cpc[c] = "options"
    /\ Applied(c, ApplyOptions(cloc[c].m, cloc[c].opts, 1))
    /\ UNCHANGED <<bvars, evars, models>>

\* registry.Register: r.models.Store(typ, m); return m, nil
RegStore(c) ==
    /\ cpc[c] = "store"
    /\ models' = Store(models, cloc[c].typ, cloc[c].m)
    /\ RegReturn(c, cloc[c].m, NoErr)
    /\ UNCHANGED <<bvars, evars, cloc>>

\* The types registered and the options given.
RegistryTypes == {PtrTo("TestModel"), PtrTo("Order"), PtrTo("Item"), PtrTo("BadTag"),
                  PtrTo("BadPair"), GoType(0, "TestModel"), GoType(2, "TestModel"),
                  PtrTo("int")}
OptionLists == {<<>>, <<WithTableName("t")>>, <<WithColumnName("Id", "pk")>>,
                <<WithColumnName("Nope", "x")>>,
                <<WithTableName("t"), WithColumnName("Nope", "x")>>}
RegistryCalls(typ) ==
    {RegistryCall("Get", typ, <<>>)} \cup {RegistryCall("Register", typ, o) : o \in OptionLists}

RegInit ==
    /\ BuilderIdle /\ PipelineIdle
    /\ models = EmptyMap
    /\ \E typ \in RegistryTypes :
          cloc \in {f \in [Callers \cup {Later} -> RegistryCalls(typ)] : f[Later].kind = "Get"}
    /\ cpc = [c \in Callers \cup {Later} |-> "start"]
    /\ cret = [c \in Callers \cup {Later} |-> Nil]

RegNext ==
    \E c \in Callers \cup {Later} :
        \/ RegBegin(c) \/ RegLoad(c) \/ RegParse(c) \/ RegOptions(c) \/ RegStore(c)

RegSpec == RegInit /\ [][RegNext]_vars

\* ------------------------------------------------------------------ properties of the registry

\* Every concurrent caller makes a Get or a Register without options.
OptionLess == \A c \in Callers : cloc[c].opts = <<>>

\* A Model with everything the declaration d gives it.
Populated(m, d) ==
    /\ m.TableName # ""
    /\ Len(m.Fields) = Len(d.fields)
    /\ \A i \in DOMAIN m.Fields :
          /\ m.Fields[i].GoName = Str(d.fields[i].name)
          /\ m.Fields[i].ColName # ""
          /\ m.Fields[i].Index = i - 1
          /\ m.FieldMap[m.Fields[i].GoName] = i
    /\ DOMAIN m.FieldMap = {m.Fields[i].GoName : i \in DOMAIN m.Fields}
    /\ DOMAIN m.ColumnMap = {m.Fields[i].ColName : i \in DOMAIN m.Fields}

\* The declared struct a pointer type points to, when its tags parse.
Registrable(typ) ==
    typ.ptr = 1 /\ typ.base \in StructNames /\ parseModel(typ).err = NoErr

\* C10: when the concurrent callers Get or Register without options the same
\* record type, every caller that has returned, and the later Get, received
\* a fully populated Model, and all received Models are identical.
C10_ConcurrentModelsIdentical ==
    OptionLess /\ Registrable(cloc[Later].typ) =>
        \A c \in Callers \cup {Later} :
            cpc[c] = "done" =>
                /\ cret[c].err = NoErr
                /\ Populated(cret[c].m, StructDecl[cloc[c].typ.base])
                /\ \A d \in Callers \cup {Later} : cpc[d] = "done" => cret[d].m = cret[c].m

\* C10 witness: two callers both missed the Load and both stored, and the
\* later Get has returned.
C10_RacedAndLaterGet ==
    /\ OptionLess /\ Registrable(cloc[Later].typ)
    /\ \A c \in Callers : cloc[c].kind = "Get"
    /\ \A c \in Callers \cup {Later} : cpc[c] = "done"
    /\ \A c \in Callers : cloc[c].m # NilModel

\* What the declarations say about a call, without parsing: the type is a
\* single-level pointer to a declared struct.
PointerToStruct(typ) == typ.ptr = 1 /\ typ.base \in StructNames

\* The comma-separated pairs of the declaration's tags that do not hold
\* exactly one '='.
BadPairsOf(d) ==
    {p \in UNION {{Split(d.fields[i].tag, ",")[j] : j \in 1..Len(Split(d.fields[i].tag, ","))} :
                     i \in {k \in 1..Len(d.fields) : d.fields[k].tag # <<>>}} :
        Cardinality({k \in 1..Len(p) : p[k] = "="}) # 1}

\* The fields WithColumnName options name that the declaration has not.
UndeclaredOf(d, opts) ==
    {opts[i].field : i \in {j \in 1..Len(opts) :
        /\ opts[j].k = "WithColumnName"
        /\ \A n \in 1..Len(d.fields) : Str(d.fields[n].name) # opts[j].field}}

\* The error the declarations give a Register(val, opts...) call, one of
\* errs; NoErr when nothing is wrong.
ExpectedRegisterErrors(typ, opts) ==
    IF ~PointerToStruct(typ) THEN {ErrPointerOnly}
    ELSE IF BadPairsOf(StructDecl[typ.base]) # {}
         THEN {NewErrInvalidTagContent(Str(p)) : p \in BadPairsOf(StructDecl[typ.base])}
         ELSE IF UndeclaredOf(StructDecl[typ.base], opts) # {}
              THEN {NewErrUnknownField(f) : f \in UndeclaredOf(StructDecl[typ.base], opts)}
              ELSE {NoErr}

\* A Register that has returned gave the expected error and, with it, no Model.
RegisterErrors ==
    \A c \in Callers \cup {Later} :
        cpc[c] = "done" /\ cloc[c].kind = "Register" =>
            /\ cret[c].err \in ExpectedRegisterErrors(cloc[c].typ, cloc[c].opts)
            /\ cret[c].err # NoErr => cret[c].m = Nil

\* Only a call the declarations find nothing wrong with changes the stored Models.
FailingStoresNothing ==
    models' # models =>
        \E c \in Callers \cup {Later} :
            /\ cpc[c] # "done" /\ cpc'[c] = "done"
            /\ cret'[c].err = NoErr
            /\ ExpectedRegisterErrors(cloc[c].typ, cloc[c].opts) = {NoErr}

\* C11: Register fails with ErrPointerOnly on anything but a single-level
\* pointer to a struct, with the invalid-tag error on a tag pair that is not
\* key=value, with the unknown-field error on a WithColumnName of an
\* undeclared field; a failing call stores no Model and leaves the stored
\* Models as they were.
C11_RegisterFailures == [](RegisterErrors) /\ [][FailingStoresNothing]_vars

\* C11 witness: a Register with an undeclared field has failed while a
\* Model of the type, stored by another caller, is in the registry.
C11_FailedBesideStored ==
    \E c \in Callers :
        /\ cpc[c] = "done" /\ cloc[c].kind = "Register"
        /\ cret[c].err = NewErrUnknownField("Nope")
        /\ Loaded(models, cloc[c].typ)
        /\ \E d \in Callers : cpc[d] = "done" /\ cret[d].err = NoErr
                              /\ models[cloc[c].typ.base] = cret[d].m

\* ------------------------------------------------------------------ properties of the upsert clause

\* An Inserter with an upsert, built once or more.
BuiltUpsert ==
    builds >= 1 /\ Len(objs) = 1 /\ objs[root].kind = "Inserter" /\ objs[root].upsert # Nil

\* The column the Model maps a field to, and its quoted form.
ColumnOf(m, f) == m.Fields[m.FieldMap[f]].ColName
Quoted(name) == <<"'", name, "'">>

EndsWith(sql, toks) ==
    Len(sql) >= Len(toks) /\ SubSeq(sql, Len(sql) - Len(toks) + 1, Len(sql)) = toks

\* The end of the text for ConflictColumns(id).Update(C(f)) under a dialect,
\* from the closing parenthesis of the last row to the terminator.
UpsertEnd(dialect, id, col) ==
    IF dialect = MySQL
    THEN <<")", " ON DUPLICATE KEY UPDATE ">> \o Quoted(col) \o <<"=VALUES(">> \o Quoted(col)
         \o <<")", ";">>
    ELSE <<")", " ON CONFLICT", "(">> \o Quoted(id) \o <<")", " DO UPDATE SET ">>
         \o Quoted(col) \o <<"=excluded.">> \o Quoted(col) \o <<";">>

\* The upsert is ConflictColumns("Id").Update(C(f)).
SelfReference(u) ==
    u.conflictColumns = <<"Id">> /\ Len(u.assigns) = 1 /\ u.assigns[1].k = "Column"

\* C12: an insert with ConflictColumns("Id").Update(C(f)) ends with
\* ON DUPLICATE KEY UPDATE `col`=VALUES(`col`) under MySQL, without the
\* conflict columns, and with ON CONFLICT(`id`) DO UPDATE SET
\* `col`=excluded.`col` under SQLite, col and id the Model's column names.
C12_UpsertClause ==
    BuiltUpsert /\ SelfReference(objs[root].upsert) =>
        \A i \in DOMAIN q :
            q[i].err = NoErr =>
                EndsWith(q[i].SQL,
                         UpsertEnd(objs[root].dialect, ColumnOf(objs[root].model, "Id"),
                                   ColumnOf(objs[root].model, objs[root].upsert.assigns[1].name)))

\* C12 witness: the insert of an Order, whose field UserId is the column
\* user_id and whose conflict field Id is the column oid, built under SQLite.
C12_OrderUpsertBuilt ==
    /\ BuiltUpsert /\ SelfReference(objs[root].upsert)
    /\ objs[root].T = "Order" /\ objs[root].dialect = SQLite3
    /\ objs[root].upsert.assigns[1].name = "UserId"
    /\ q[1].err = NoErr

\* The text of the upsert's assignments: what follows the last UPDATE keyword.
UpdateKeywords == {" ON DUPLICATE KEY UPDATE ", " DO UPDATE SET "}
AssignmentsText(sql) ==
    SubSeq(sql,
           1 + CHOOSE i \in DOMAIN sql :
                   sql[i] \in UpdateKeywords /\ \A j \in (i+1)..Len(sql) : sql[j] \notin UpdateKeywords,
           Len(sql))

\* The columns assigned by the clauses of a text, in text order: a clause is
\* a quoted column followed by "=", "=VALUES(" or "=excluded.".
RECURSIVE ClauseColumns(_, _)
ClauseColumns(toks, p) ==
    IF p > Len(toks) THEN <<>>
    ELSE (IF p > 2 /\ toks[p] \in {"=", "=VALUES(", "=excluded."} THEN <<toks[p - 2]>> ELSE <<>>)
         \o ClauseColumns(toks, p + 1)

\* The column an element of the assignment list assigns.
AssignedColumn(m, a) == ColumnOf(m, IF a.k = "Column" THEN a.name ELSE a.column)

\* The number of literal values bound by an expression.
RECURSIVE ValuesIn(_)
ValuesIn(e) ==
    IF e.k = "value" THEN 1
    ELSE IF e.k \in {"MathExpr", "Predicate"} THEN ValuesIn(e.left) + ValuesIn(e.right)
    ELSE 0
RECURSIVE ValuesFrom(_, _)
ValuesFrom(assigns, i) ==
    IF i > Len(assigns) THEN 0
    ELSE (IF assigns[i].k = "Assignment" THEN ValuesIn(assigns[i].val) ELSE 0)
         + ValuesFrom(assigns, i + 1)

\* C13: the upsert text has one clause per element of the assignment list,
\* in list order, and a placeholder for every value the list binds, also for
\* the elements that follow a computed Assignment.
C13_EveryAssignmentEmitted ==
    BuiltUpsert =>
        \A i \in DOMAIN q :
            q[i].err = NoErr =>
                /\ ClauseColumns(AssignmentsText(q[i].SQL), 1)
                      = [n \in 1..Len(objs[root].upsert.assigns) |->
                            AssignedColumn(objs[root].model, objs[root].upsert.assigns[n])]
                /\ Placeholders(AssignmentsText(q[i].SQL)) = ValuesFrom(objs[root].upsert.assigns, 1)

\* ------------------------------------------------------------------ DoTx

\* What the driver and the caller's fn may answer.
ErrBegin == "begin failed"
ErrCommit == "commit failed"
ErrRollback == "rollback failed"
ErrBiz == "business error"
ErrBizOther == "another business error"

\* fn did not return: it panicked.
FnPanics == "panic"
FnOutcomes == {NoErr, ErrBiz, ErrBizOther, FnPanics}

\* An error value: its message and the message of the error it wraps
\* (NoErr when it wraps none).  The nil error has the message NoErr.
ErrorValue(msg) == [msg |-> msg, unwrap |-> NoErr]

\* An error that is the rollback error alone.
RollbackErrorAlone(bizErr, rbErr, panicked) == rbErr

\* errs.NewErrFailToRollbackTx: fmt.Errorf with %w for bizErr, %s for
\* rbErr.Error() and %t for panicked.
NewErrFailToRollbackTx(bizErr, rbErr, panicked) ==
    [msg |-> "orm: rollback failed, business error " \o bizErr.msg
             \o ", rollback error " \o rbErr.msg
             \o ", panic: " \o (IF panicked THEN "true" ELSE "false"),
     unwrap |-> bizErr.msg]

\* A deferred function that looks at the error only.
RollbackOnError(panicked, err) == err.msg # NoErr

\* The deferred function's test: if panicked || err != nil
ShouldRollback(panicked, err) == panicked \/ err.msg # NoErr

\* What happened, in order: the calls DoTx made and what each answered.
TxEvent(e, out) == [e |-> e, out |-> out]

\* The locals of DoTx: the named result err, panicked, and whether fn
\* panicked (the panic goes on after the deferred function).
NewDoTx == [entry |-> "DoTx", err |-> ErrorValue(NoErr), panicked |-> FALSE, unwinding |-> FALSE]

\* db.DoTx(ctx, fn, opts) is called.
DoTx ==
    /\ pc = NotRunning /\ calls < MaxCalls
    /\ calls' = calls + 1
    /\ call' = NewDoTx
    /\ log' = <<>>
    /\ ret' = Nil
    /\ pc' = "begin"
    /\ UNCHANGED <<bvars, rvars, depth, cur, acc, db>>

\* tx, err = db.BeginTx(ctx, opts); if err != nil { return err }; panicked := true
DBBeginTx ==
    /\ pc = "begin"
    /\ \E e \in {NoErr, ErrBegin} :
          /\ log' = Append(log, TxEvent("BeginTx", e))
          /\ IF e # NoErr
             THEN /\ ret' = [k |-> "error", err |-> ErrorValue(e)]
                  /\ acc' = Append(acc, [k |-> "error", err |-> ErrorValue(e)])
                  /\ call' = [call EXCEPT !.err = ErrorValue(e)]
                  /\ pc' = NotRunning
             ELSE /\ ret' = ret /\ acc' = acc
                  /\ call' = [call EXCEPT !.panicked = TRUE]
                  /\ pc' = "fn"
    /\ UNCHANGED <<bvars, rvars, depth, cur, db, calls>>

\* err = fn(ctx, tx); panicked = false; return err.  A panic in fn skips
\* both assignments.
CallFn ==
    /\ pc = "fn"
    /\ \E o \in FnOutcomes :
          /\ log' = Append(log, TxEvent("fn", o))
          /\ call' = IF o = FnPanics THEN [call EXCEPT !.unwinding = TRUE]
                     ELSE [call EXCEPT !.err = ErrorValue(o), !.panicked = FALSE]
    /\ pc' = "deferred"
    /\ UNCHANGED <<bvars, rvars, depth, cur, acc, db, calls, ret>>

\* The deferred function, when it rolls back with answer e.
RolledBack(e) ==
    /\ log' = Append(log, TxEvent("Rollback", e))
    /\ call' = IF e # NoErr
               THEN [call EXCEPT !.err = NewErrFailToRollbackTx(call.err, ErrorValue(e),
                                                                call.panicked)]
               ELSE call

\* The deferred function, when it commits with answer e: err = tx.Commit()
Committed(e) ==
    /\ log' = Append(log, TxEvent("Commit", e))
    /\ call' = [call EXCEPT !.err = ErrorValue(e)]

\* The deferred function runs.
DeferredEnd ==
    /\ pc = "deferred"
    /\ IF ShouldRollback(call.panicked, call.err)
       THEN \E e \in {NoErr, ErrRollback} : RolledBack(e)
       ELSE \E e \in {NoErr, ErrCommit} : Committed(e)
    /\ pc' = "leave"
    /\ UNCHANGED <<bvars, rvars, depth, cur, acc, db, calls, ret>>

\* What the caller of DoTx gets: the named result, or the panic of fn.
DoTxResult(c) == IF c.unwinding THEN Panic("fn") ELSE [k |-> "error", err |-> c.err]

\* DoTx is left; the caller keeps what its calls gave it in acc.
DoTxReturns ==
    /\ pc = "leave"
    /\ ret' = DoTxResult(call)
    /\ acc' = Append(acc, DoTxResult(call))
    /\ pc' = NotRunning
    /\ UNCHANGED <<bvars, rvars, depth, cur, db, calls, call, log>>

TxInit == BuilderIdle /\ RegistryIdle /\ PipelineIdle

TxNext == DoTx \/ DBBeginTx \/ CallFn \/ DeferredEnd \/ DoTxReturns

TxSpec == TxInit /\ [][TxNext]_vars

\* ------------------------------------------------------------------ properties of DoTx

\* The events of a kind in the log of the current call, and how many.
EventsOf(e) == {i \in DOMAIN log : log[i].e = e}
Count(e) == Cardinality(EventsOf(e))

\* fn has ended and the deferred function has run.
Ended == calls >= 1 /\ pc \in {"leave", NotRunning} /\ Count("fn") = 1

\* C14: when BeginTx fails fn is never invoked and the begin error is
\* returned; otherwise, once fn has ended, exactly one of Commit and
\* Rollback was called, once, after fn: Commit if and only if fn returned
\* nil without panicking, Rollback if it returned an error or panicked.
C14_CommitOrRollbackOnce ==
    calls >= 1 =>
        /\ Count("fn") <= 1 /\ Count("Commit") + Count("Rollback") <= 1
        /\ Len(log) >= 1 /\ log[1].out # NoErr =>
              /\ Len(log) = 1
              /\ pc = NotRunning
              /\ ret = [k |-> "error", err |-> ErrorValue(log[1].out)]
        /\ Ended =>
              /\ Count("Commit") + Count("Rollback") = 1
              /\ log[2].e = "fn" /\ log[3].e \in {"Commit", "Rollback"}
              /\ Count("Commit") = 1 <=> log[2].out = NoErr
              /\ Count("Rollback") = 1 <=> log[2].out # NoErr

\* C14 witness: fn panicked, the transaction was rolled back and the panic
\* reached the caller of DoTx.
C14_RolledBackAfterPanic ==
    /\ CallOver /\ Ended
    /\ log[2].out = FnPanics /\ log[3].e = "Rollback"
    /\ ret = Panic("fn")

\* The message says that the rollback failed with r while fn had not panicked.
Carries(msg, r) ==
    \E pre \in {"orm: rollback failed, business error " \o e : e \in FnOutcomes} :
        msg = pre \o ", rollback error " \o r \o ", panic: false"

\* C15: when fn returns e and Rollback succeeds DoTx returns e; when fn
\* returns e and Rollback fails with r DoTx returns an error that wraps e and
\* carries r's message and panicked = false, not r alone; when fn returns
\* nil DoTx returns what Commit returned.
C15_DoTxResult ==
    CallOver /\ Ended /\ log[2].out # FnPanics =>
        /\ log[2].out # NoErr /\ log[3].out = NoErr
              => ret = [k |-> "error", err |-> ErrorValue(log[2].out)]
        /\ log[2].out # NoErr /\ log[3].out # NoErr =>
              /\ ret.k = "error"
              /\ ret.err # ErrorValue(log[3].out)
              /\ ret.err.unwrap = log[2].out
              /\ Carries(ret.err.msg, log[3].out)
        /\ log[2].out = NoErr => ret = [k |-> "error", err |-> ErrorValue(log[3].out)]

\* C15 witness: fn returned an error, Rollback failed, and DoTx has returned.
C15_RollbackFailed ==
    /\ CallOver /\ Ended
    /\ log[2].out = ErrBiz /\ log[3].e = "Rollback" /\ log[3].out = ErrRollback

\* ------------------------------------------------------------------ properties of empty statements

\* The statement is an Inserter without values or an Updater without
\* assignments, and the error its Build has for that.
EmptyStatement ==
    \/ objs[root].kind = "Inserter" /\ Len(objs[root].values) = 0
    \/ objs[root].kind = "Updater" /\ Len(objs[root].assigns) = 0
EmptyStatementError ==
    IF objs[root].kind = "Inserter" THEN ErrInsertZeroRow ELSE ErrNoUpdatedColumns

\* The handler's Build was reached in the current call: no middleware
\* answered in its place.
BuildReached == \E j \in DOMAIN log : log[j].e = "build"

\* C16: Build of an Inserter without values fails with ErrInsertZeroRow and
\* Build of an Updater without assignments with ErrNoUpdatedColumns, no
\* Query is returned, the session's execContext is never called, and the
\* Exec that reached Build returns a Result carrying that error.
C16_EmptyStatementFails ==
    EmptyStatement =>
        /\ \A i \in DOMAIN q : q[i].err = EmptyStatementError /\ q[i].SQL = <<>> /\ q[i].Args = <<>>
        /\ \A j \in DOMAIN log : log[j].e # "session"
        /\ CallOver /\ BuildReached =>
              /\ ret.k = "Result"
              /\ ret.err = EmptyStatementError
              /\ ret.res = Nil

\* C16 witness: Inserter.Exec without values has returned through the
\* middleware [A, B], and Build was reached.
C16_EmptyInsertReturned ==
    /\ EmptyStatement /\ objs[root].kind = "Inserter"
    /\ CallOver /\ BuildReached
    /\ Len(db.ms) = 2
    /\ ret.k = "Result"

\* ------------------------------------------------------------------ properties of fetch-many errors

\* The error an exit path of getMultiHandler returns.
ExitError(exit) ==
    IF exit = "materialization error" THEN ErrScan
    ELSE IF exit = "iteration error" THEN ErrIteration
    ELSE NoErr

\* C17: when getMultiHandler leaves by a materialization error or an
\* iteration error after one or more rows were materialized, it returns
\* that error and a nil result, and getMulti returns the same: the records
\* accumulated are not returned.
C17_PartialResultsDiscarded ==
    /\ calls >= 1 /\ call.core = "getMulti" /\ Len(acc) >= 1
    /\ call.exit \in {"materialization error", "iteration error"}
    => /\ call.res = QueryResult(Nil, ExitError(call.exit))
       /\ CallOver => ret = QueryResult(Nil, ExitError(call.exit))

\* C17 witness: getMulti has returned after the cursor failed with a row
\* already materialized.
C17_FailedAfterRows ==
    /\ CallOver /\ call.core = "getMulti"
    /\ call.exit = "iteration error" /\ Len(acc) >= 1

\* ------------------------------------------------------------------ properties of predicate lists

\* p1.And(p2)...And(pn), for the first n predicates of a list.
RECURSIVE AndAll(_, _)
AndAll(ps, n) == IF n = 1 THEN ps[1] ELSE And(AndAll(ps, n - 1), ps[n])

\* The Selector as it was before its first Build, with Where(p) in place of
\* its predicate list.
WithWhere(s, p) ==
    [s EXCEPT !.where = <<p>>, !.sb = <<>>, !.args = <<>>, !.ph = <<>>, !.model = NilModel]

\* Two Build results are the same Query, or the same error.
SameQuery(r, b) == r.err = b.err /\ r.q.SQL = b.SQL /\ r.q.Args = b.Args

\* The text of a comparison of a column with a literal, in parentheses.
ComparisonText(m, p) == <<"(">> \o Quoted(ColumnOf(m, p.left.name)) \o <<" ", p.op, " ", "?", ")">>
IsComparison(p) ==
    /\ p.op \in {opEQ, opLT, opGT} /\ p.left.k = "Column" /\ p.right.k = "value"
    /\ p.left.name # "Nope"

\* C18: Where(p1, ..., pn) builds the Query that Where(p1.And(p2)...And(pn))
\* builds; for two comparisons with literals the WHERE text is
\* (left) AND (right) and the literals are bound left to right.
C18_ListIsLeftFoldedAnd ==
    builds >= 1 /\ Len(objs) = 1 /\ objs[root].kind = "Selector" /\ Len(objs[root].where) > 0 =>
        /\ SameQuery(Build(<<WithWhere(objs[root],
                                       AndAll(objs[root].where, Len(objs[root].where)))>>, 1),
                     q[1])
        /\ /\ Len(objs[root].where) = 2
           /\ IsComparison(objs[root].where[1]) /\ IsComparison(objs[root].where[2])
           => /\ q[1].err = NoErr
              /\ WhereText(q[1].SQL)
                    = ComparisonText(objs[root].model, objs[root].where[1])
                      \o <<" ", opAND, " ">>
                      \o ComparisonText(objs[root].model, objs[root].where[2])
              /\ SubSeq(q[1].Args, 1, 2)
                    = <<objs[root].where[1].right.val, objs[root].where[2].right.val>>

\* C18 witness: a list of three predicates was built, and a list of two
\* comparisons with different literals.
C18_ThreePredicatesBuilt ==
    /\ builds >= 1 /\ Len(objs) = 1 /\ objs[root].kind = "Selector"
    /\ Len(objs[root].where) = 3 /\ q[1].err = NoErr

\* ------------------------------------------------------------------ properties of column arithmetic

\* The Selector built has the one predicate p.
BuiltWith(p) ==
    /\ builds >= 1 /\ Len(objs) = 1 /\ objs[root].kind = "Selector"
    /\ objs[root].where = <<p>> /\ q[1].err = NoErr

\* The WHERE text of `age` = (`id` sign ?).
ArithmeticText(m, sign) ==
    Quoted(ColumnOf(m, "Age")) \o <<" ", "=", " ", "(">> \o Quoted(ColumnOf(m, "Id"))
    \o <<" ", sign, " ", "?", ")">>

\* C19: Column.Add(n) is the MathExpr of the column, '+' and the literal n,
\* Column.Multi(n) the MathExpr of the column, '*' and the literal n, and
\* they compile to col + ? and col * ?.
C19_AddAndMulti ==
    \A v \in Vals :
        /\ BuiltWith(EQ(C("Age"), ColumnAdd(C("Id"), v))) =>
              /\ objs[root].where[1].right = MathExpr(C("Id"), "+", valueOf(v))
              /\ WhereText(q[1].SQL) = ArithmeticText(objs[root].model, "+")
              /\ q[1].Args[1] = v
        /\ BuiltWith(EQ(C("Age"), ColumnMulti(C("Id"), v))) =>
              /\ objs[root].where[1].right = MathExpr(C("Id"), "*", valueOf(v))
              /\ WhereText(q[1].SQL) = ArithmeticText(objs[root].model, "*")
              /\ q[1].Args[1] = v

\* ------------------------------------------------------------------ properties of Column.As

\* The projection of a Query: what stands between SELECT and FROM.
Projection(sql) == SubSeq(sql, First(sql, {"SELECT "}) + 1, First(sql, {" FROM "}) - 1)

\* The Selector built selects the one column c from the table t.
BuiltSelecting(t, c) ==
    /\ builds >= 1 /\ Len(objs) = 1 /\ objs[root].kind = "Selector"
    /\ objs[root].table = t /\ objs[root].columns = <<c>>

\* A declared field of the table's record type.
DeclaredIn(t, f) == f \in DOMAIN RegistryGet(t.entity).m.FieldMap

\* C20: Column.As(alias) has the receiver's name and table and the alias
\* given: a column of an aliased table, after As, still resolves against
\* that table and is written with the table's prefix, then AS alias.
C20_AsKeepsTable ==
    \A t \in AliasedTables : \A f \in {"Id", "Sku", "UserId"} :
        BuiltSelecting(t, ColumnAs(TableC(t, f), "x")) /\ DeclaredIn(t, f) =>
            /\ objs[root].columns[1].name = f
            /\ objs[root].columns[1].alias = "x"
            /\ objs[root].columns[1].table = t
            /\ q[1].err = NoErr
            /\ Projection(q[1].SQL)
                  = Quoted(t.alias) \o <<".">> \o Quoted(ColumnOf(RegistryGet(t.entity).m, f))
                    \o <<" AS ">> \o Quoted("x")

\* ------------------------------------------------------------------ properties of operator tokens

\* The operators of predicates, as SQL spells them.
PredicateOperators == {"=", "<", ">", "IN", "EXISTS", "AND", "OR", "NOT"}

\* The operator tokens of a text: buildBinaryExpr writes an operator between
\* two single spaces.  The only other tokens that can stand there are the
\* parenthesis that opens the operand of an operator without left operand,
\* and the one that closes an operand ending in a subquery.
EmittedOperators(sql) ==
    {sql[j] : j \in {i \in 2..(Len(sql) - 1) :
                        sql[i - 1] = " " /\ sql[i + 1] = " " /\ sql[i] \notin {"(", ")"}}}

\* A Selector whose i-th predicate tests a subquery for rows was built.
BuiltExist(i) ==
    /\ builds >= 1 /\ objs[root].kind = "Selector" /\ i \in DOMAIN objs[root].where
    /\ objs[root].where[i].left = Nil /\ objs[root].where[i].right.k = "Subquery"
    /\ q[1].err = NoErr

\* The text has EXISTS, a space and an opening parenthesis.
HasExists(sql) ==
    \E j \in 1..(Len(sql) - 2) : sql[j] = "EXISTS" /\ sql[j + 1] = " " /\ sql[j + 2] = "("

\* C21: Exist(subquery) compiles to EXISTS followed by the parenthesized
\* subquery, and every operator token written for a Predicate is one of
\* =, <, >, IN, EXISTS, AND, OR, NOT (arithmetic writes + and *).
C21_ExistsOperator ==
    /\ \A i \in 1..2 : BuiltExist(i) => HasExists(WhereText(q[1].SQL))
    /\ \A i \in DOMAIN q :
          q[i].err = NoErr /\ objs[root].kind = "Selector" /\ Len(objs[root].where) > 0 =>
              EmittedOperators(WhereText(q[i].SQL)) \ {opAdd, opMulti} \subseteq PredicateOperators

\* ------------------------------------------------------------------ properties of subqueries

\* What the latest Build call wrote and bound: a Selector's buffer and
\* argument list keep what earlier Build calls left in them.
Before(i) == IF i = 1 THEN [SQL |-> <<>>, Args |-> <<>>] ELSE q[i - 1]
LatestText == SubSeq(q[builds].SQL, Len(Before(builds).SQL) + 1, Len(q[builds].SQL))
LatestArgs == SubSeq(q[builds].Args, Len(Before(builds).Args) + 1, Len(q[builds].Args))

\* An outer Selector of one inner Selector, every Build of it successful.
BuiltOverSubquery ==
    /\ builds >= 1 /\ Len(objs) = 2 /\ objs[root].kind = "Selector"
    /\ \A i \in DOMAIN q : q[i].err = NoErr

\* The subquery is the right operand of the outer Selector's i-th predicate,
\* directly or under ANY, ALL or SOME.
ValuePosition(s, i) ==
    /\ i \in DOMAIN s.where
    /\ s.where[i].right.k \in {"Subquery", "SubqueryExpr"}

ValueKeywords == {"IN", "EXIST", "ANY", "ALL", "SOME"}

\* The text from position p on is ( inner ) with the terminator of inner
\* left out, and no alias behind it.
SplicedAt(text, p, inner) ==
    /\ text[p] = "("
    /\ SubSeq(text, p + 1, p + Len(inner) - 1) = SubSeq(inner, 1, Len(inner) - 1)
    /\ inner[Len(inner)] = ";"
    /\ text[p + Len(inner)] = ")"
    /\ \A j \in (p + Len(inner))..Len(text) : text[j] # " AS "

\* The arguments of inner stand in args behind those of the n placeholders
\* written before the subquery, and args has one argument per placeholder.
ArgsSplicedAt(text, args, n, inner) ==
    /\ SubSeq(args, n + 1, n + Len(inner)) = inner
    /\ Len(args) = Placeholders(text)

\* The subquery as the table source: ( inner ) and then the alias.
SplicedAsTable(text, p, inner, alias) ==
    /\ text[p] = "("
    /\ SubSeq(text, p + 1, p + Len(inner) - 1) = SubSeq(inner, 1, Len(inner) - 1)
    /\ text[p + Len(inner)] = ")"
    /\ SubSeq(text, p + Len(inner) + 2, p + Len(inner) + 5) = <<" AS ">> \o Quoted(alias)

\* C22: a Subquery in a value position is written as ( + the SQL its
\* Selector's Build returned, without the trailing ';' + ), its Args are
\* bound between those of what is written before and after it, and no
\* alias follows; as a table source the alias follows.
C22_SubquerySplice ==
    BuiltOverSubquery =>
        /\ \A i \in 1..2 :
              ValuePosition(objs[root], i) =>
                  /\ SplicedAt(LatestText, First(LatestText, ValueKeywords) + 2, objs[2].sb)
                  /\ ArgsSplicedAt(LatestText, LatestArgs,
                                   Placeholders(SubSeq(LatestText, 1,
                                                       First(LatestText, ValueKeywords))),
                                   objs[2].args)
        /\ objs[root].table.k = "Subquery" /\ ~ValuePosition(objs[root], 1) =>
              SplicedAsTable(LatestText, First(LatestText, {" FROM "}) + 1, objs[2].sb,
                             objs[root].table.alias)

\* C22 witness: a subquery under ANY, ALL or SOME in the first of two
\* predicates, so that its argument is bound before the second predicate's,
\* in a statement built twice.
C22_SplicedBeforeOuterArg ==
    /\ BuiltOverSubquery /\ builds = 2
    /\ Len(objs[root].where) = 2 /\ ValuePosition(objs[root], 1)
    /\ objs[root].where[1].right.k = "SubqueryExpr"
    /\ LatestArgs = objs[2].args \o <<objs[root].where[2].right.val>>

\* ------------------------------------------------------------------ properties of resolution through a subquery

\* A Selector over a subquery over a table, selecting one field through the
\* subquery, built once or more.
BuiltThroughSubquery ==
    /\ builds >= 1 /\ Len(objs) = 2 /\ objs[root].kind = "Selector"
    /\ objs[root].table.k = "Subquery" /\ objs[root].table.table.k = "Table"
    /\ Len(objs[root].columns) = 1 /\ objs[root].columns[1].table = objs[root].table

\* The projected columns with that alias, and those with that field name.
WithAlias(columns, fd) == {i \in DOMAIN columns : selectedAlias(columns[i]) = fd}
WithFieldName(columns, fd) == {i \in DOMAIN columns : fieldName(columns[i]) = fd}
Lowest(S) == CHOOSE i \in S : \A j \in S : i <= j

\* Alias first, then field name: the resolution of fd through the subquery
\* sub, in the statement b.
AliasFirst(b, sub, fd) ==
    IF Len(sub.columns) = 0 THEN colName(b, sub.table, fd)
    ELSE IF WithAlias(sub.columns, fd) # {} THEN [name |-> fd, err |-> NoErr]
    ELSE IF WithFieldName(sub.columns, fd) # {}
         THEN colName(b, target(sub.columns[Lowest(WithFieldName(sub.columns, fd))]), fd)
         ELSE [name |-> "", err |-> NewErrUnknownField(fd)]

\* The Build result agrees with the resolution e.
ResolvedAs(e, r) ==
    /\ r.err = e.err
    /\ e.err = NoErr => SelectedColumn(r.SQL) = e.name

\* C23: a field selected through a subquery resolves to itself when a
\* projected column has it as alias; only when none has, by a projected
\* column with that field name, through the column's table; when no
\* projected column matches, Build fails with the unknown-field error; a
\* subquery that projects no columns resolves through its table.
C23_AliasBeforeFieldName ==
    BuiltThroughSubquery =>
        ResolvedAs(AliasFirst(objs[root], objs[root].table, objs[root].columns[1].name), q[1])

\* ------------------------------------------------------------------ properties of Inserter.Build

\* An Inserter with rows, built once or more.
BuiltInsert ==
    /\ builds >= 1 /\ Len(objs) = 1 /\ objs[root].kind = "Inserter"
    /\ Len(objs[root].values) > 0

\* The declared field names of a record type, in declaration order.
DeclaredFields(T) == [j \in 1..Len(StructDecl[T].fields) |-> Str(StructDecl[T].fields[j].name)]
Declares(T, f) == \E j \in 1..Len(StructDecl[T].fields) : Str(StructDecl[T].fields[j].name) = f

\* The target fields of an Inserter: its Columns list, or all fields.
TargetFields(s) == IF Len(s.icolumns) = 0 THEN DeclaredFields(s.T) ELSE s.icolumns

\* n groups of k placeholders: (?,...,?),...,(?,...,?)
Group(k) == <<"(">> \o [j \in 1..(2 * k - 1) |-> IF j % 2 = 1 THEN "?" ELSE ","] \o <<")">>
RECURSIVE Groups(_, _)
Groups(n, k) == IF n = 1 THEN Group(k) ELSE Groups(n - 1, k) \o <<",">> \o Group(k)

\* The text the latest Build of an Inserter wrote: the buffer keeps what an
\* earlier successful Build wrote.
InsertText == SubSeq(q[builds].SQL, Len(Before(builds).SQL) + 1, Len(q[builds].SQL))

\* What stands behind VALUES up to the upsert clause or the terminator.
UpsertKeywords == {" ON DUPLICATE KEY UPDATE ", " ON CONFLICT", ";"}
ValuesText(sql) == SubSeq(sql, First(sql, {") VALUES"}) + 1, First(sql, UpsertKeywords) - 1)

\* C24: Build of an Inserter with n rows and k target fields (the Columns
\* list in its order, or the declared fields) writes n groups of k
\* placeholders, binds the j-th target field of the i-th row at
\* Args[(i-1)*k + (j-1)] and what the upsert clause binds behind all rows;
\* a Columns entry that is not a declared field fails with the
\* unknown-field error.
C24_InsertArgsInRowOrder ==
    BuiltInsert =>
        LET s == objs[root]
            n == Len(s.values)
            k == Len(TargetFields(s))
            r == q[builds]
            bad == {j \in 1..k : ~Declares(s.T, TargetFields(s)[j])}
        IN IF bad # {}
           THEN r.err = NewErrUnknownField(TargetFields(s)[Lowest(bad)])
           ELSE /\ r.err = NoErr
                /\ ValuesText(InsertText) = Groups(n, k)
                /\ \A i \in 1..n : \A j \in 1..k :
                      r.Args[(i - 1) * k + j] = s.values[i][TargetFields(s)[j]]
                /\ Len(r.Args) = Placeholders(InsertText)

\* C24 witness: two rows into the columns Age, Id, with an upsert clause
\* that binds a value, built twice.
C24_TwoRowsTwoColumnsUpsert ==
    /\ BuiltInsert /\ builds = 2
    /\ Len(objs[root].values) = 2 /\ objs[root].icolumns = <<"Age", "Id">>
    /\ objs[root].values[1] # objs[root].values[2]
    /\ Len(q[2].Args) = 5

\* ------------------------------------------------------------------ properties of Deleter.Build

\* A Deleter of its record type's own table, built once or more.
BuiltDelete ==
    /\ builds >= 1 /\ Len(objs) = 1 /\ objs[root].kind = "Deleter"
    /\ objs[root].table = GoString("")

\* NewSelector[T](db).Where(ps...).Build(): what the shared compiler makes
\* of the same predicates.
SelectorOf(T, ps) == Build(<<[NewSelector(T, MySQL) EXCEPT !.where = ps]>>, 1)

\* The statement text up to its WHERE clause or terminator.
Preamble(sql) == SubSeq(sql, 1, First(sql, {" WHERE ", ";"}) - 1)

\* The Query of a Deleter against that of the Selector: the same error if
\* any; else the same WHERE text, character by character, and the same
\* Args, and the Model's table name.
SameWhere(d, s, m) ==
    /\ d.err = s.err
    /\ s.err = NoErr =>
          /\ Str(WhereText(d.SQL)) = Str(WhereText(s.q.SQL))
          /\ d.Args = s.q.Args
          /\ Str(Preamble(d.SQL)) = Str(<<"DELETE FROM ">> \o Quoted(m.TableName))

\* C25: for any list of predicates, Deleter.Build gives the WHERE text and
\* the Args that a Selector of the same record type gives: field names
\* resolved to column names, an unknown field an error, nested binary
\* operands in parentheses; and the table is the Model's table name.
C25_DeleterUsesSharedCompiler ==
    BuiltDelete /\ Len(objs[root].where) > 0 =>
        SameWhere(q[1], SelectorOf(objs[root].T, objs[root].where),
                  RegistryGet(PtrTo(objs[root].T)).m)

\* ------------------------------------------------------------------ properties of Register racing Get

\* The caller c registers the type with options that apply, and every
\* other concurrent caller gets the same type.
RegisterAmongGets(c) ==
    /\ cloc[c].kind = "Register" /\ cloc[c].opts # <<>>
    /\ ExpectedRegisterErrors(cloc[c].typ, cloc[c].opts) = {NoErr}
    /\ \A d \in Callers \ {c} : cloc[d].kind = "Get"

\* The Model of the type with the options applied.
WithOptions(typ, opts) == ApplyOptions(parseModel(typ).m, opts, 1).m

\* C26: when a Register(T, options) ran concurrently with first-time
\* Get(T) calls and all of them have returned, a Get(T) returns the Model
\* with the options applied.
C26_RegisterSurvivesRacingGet ==
    \A c \in Callers :
        RegisterAmongGets(c) /\ (\A d \in Callers \cup {Later} : cpc[d] = "done") =>
            /\ cret[Later].err = NoErr
            /\ cret[Later].m = WithOptions(cloc[c].typ, cloc[c].opts)

\* ------------------------------------------------------------------ properties of stored Models

\* The maps of a Model index its Fields, and nothing else: the maps hold
\* pointers into Fields, here their indexes.
MapsIndexFields(m) ==
    /\ \A i \in DOMAIN m.Fields :
          /\ m.Fields[i].GoName \in DOMAIN m.FieldMap
          /\ m.FieldMap[m.Fields[i].GoName] = i
          /\ m.Fields[i].ColName \in DOMAIN m.ColumnMap
          /\ m.ColumnMap[m.Fields[i].ColName] = i
    /\ DOMAIN m.FieldMap = {m.Fields[i].GoName : i \in DOMAIN m.Fields}
    /\ DOMAIN m.ColumnMap = {m.Fields[i].ColName : i \in DOMAIN m.Fields}

\* C27: in every Model stored in the registry, one registered with options
\* included, FieldMap[f.GoName] is f and ColumnMap[f.ColName] is f for each
\* Field f, and the maps have no other entry.
C27_MapsAgreeWithFields ==
    \A t \in DOMAIN models : MapsIndexFields(models[t])

\* ------------------------------------------------------------------ properties of repeated Build

\* C28: a second Build on the same statement object, its configuration
\* unchanged, returns a Query with the SQL text and the Args of the first.
C28_BuildTwiceSameQuery ==
    builds = 2 /\ q[1].err = NoErr =>
        /\ q[2].err = NoErr
        /\ q[2].SQL = q[1].SQL
        /\ q[2].Args = q[1].Args

\* ------------------------------------------------------------------ properties of fetch-one

\* The handler of a fetch-one call has returned after the session gave it
\* a cursor.
GetHandlerLeft ==
    /\ calls >= 1 /\ call.core = "get" /\ cur # Nil
    /\ pc \in {"unwind", NotRunning}

\* C29: in fetch-one, the cursor the session returned is released when the
\* handler has returned, by whichever exit path: zero rows, Model lookup
\* error, materialization error, or success.
C29_GetReleasesCursor ==
    GetHandlerLeft => cur.released

\* C30: fetch-one returns ErrNoRows only when the query yielded zero rows;
\* when advancing to the first row fails, the caller receives the
\* iteration error.
C30_NoRowsOnlyWhenEmpty ==
    GetHandlerLeft /\ pc = NotRunning /\ ret.k = "(*T, error)" =>
        /\ cur.err # NoErr => ret.err = cur.err
        /\ ret.err = ErrNoRows => call.rows = 0

=============================================================================
